---------------------------- MODULE Spec2Model ----------------------------
(***************************************************************************)
(* State-machine model of the AI Knowledge Assistant backend:              *)
(*   - the documents table and the chat_messages table,                    *)
(*   - the upload directory,                                                *)
(*   - the "knowledge_base" vector collection,                             *)
(*   - the background ingestion tasks scheduled by upload and reprocess,   *)
(*   - the HTTP handlers of the documents, upload and chat route groups.   *)
(*                                                                         *)
(* Granularity.  A route handler runs from the result of its SELECT to the *)
(* commit of its session without yielding to another coroutine that        *)
(* touches the same data (the vector-store methods and delete_file are     *)
(* coroutines without a suspension point), so a handler is one action.     *)
(* The ingestion task suspends at its database and file awaits, so it is   *)
(* four steps: start, extract, index, commit.                              *)
(*                                                                         *)
(* Document ids and storage names are never reused.                        *)
(***************************************************************************)
EXTENDS Integers, Sequences, FiniteSets, TLC

(***************************************************************************)
(* Bounds of the model.                                                    *)
(***************************************************************************)
MaxDocs == 1
MaxTasks == 3
MaxFiles == 2

(***************************************************************************)
(* Program constants.                                                      *)
(***************************************************************************)
MAX_FILE_SIZE == 10485760
CHUNK_SIZE == 1000
CHUNK_OVERLAP == 200
PreviewMaxLength == 500
QuestionMinLength == 1
QuestionMaxLength == 2000
NSources == 5
SourceMaxLength == 500

ALLOWED_EXTENSIONS == {".txt", ".pdf"}

PENDING == "pending"
PROCESSING == "processing"
COMPLETED == "completed"
FAILED == "failed"
DocumentStatus == {PENDING, PROCESSING, COMPLETED, FAILED}

None == "None"

(***************************************************************************)
(* Accounts and bearer tokens.  A request carries no token, a token that   *)
(* does not validate, or the token of an active user.                      *)
(***************************************************************************)
Users == {1, 2}
NoToken == "none"
BadToken == "invalid"
Tokens == {[kind |-> NoToken, user |-> 0], [kind |-> BadToken, user |-> 0]}
            \cup {[kind |-> "bearer", user |-> u] : u \in Users}
TokenOf(u) == [kind |-> "bearer", user |-> u]

\* A row of the users table.
User(id, email, username) ==
    [id |-> id, email |-> email, username |-> username, is_active |-> TRUE]

\* The rows of the two users.
RegisteredUsers ==
    << User(1, "user1@example.com", "user1"), User(2, "user2@example.com", "user2") >>

(***************************************************************************)
(* Texts.  A text is named by a token; what the code observes of it is     *)
(* whether it is blank after strip() and its length.                       *)
(***************************************************************************)
Contents == {"blank", "short", "long"}

TextLen(c) ==
    CASE c = "blank" -> 3
      [] c = "short" -> 42
      [] c = "long" -> 1500
      [] OTHER -> 0

Strip(c) == IF c = "blank" THEN "" ELSE c

StrippedLen(t) == IF t = "" THEN 0 ELSE TextLen(t)

(***************************************************************************)
(* File names: a stem and an extension as the client wrote it.             *)
(***************************************************************************)
Lower(ext) ==
    CASE ext = ".TXT" -> ".txt"
      [] ext = ".Txt" -> ".txt"
      [] ext = ".PDF" -> ".pdf"
      [] ext = ".DOCX" -> ".docx"
      [] OTHER -> ext

Suffix(name) == name.ext

FileName(stem, ext) == [stem |-> stem, ext |-> ext]

UuidHex ==
    << "0f8fad5bd9cb469fa16570867728950e",
       "7c9e6679742540de944be07fc1f90ae7",
       "3d6f0a8a1b2c4d5e8f9a0b1c2d3e4f50",
       "9b2d5c1e7f3a4b6c8d0e1f2a3b4c5d6e",
       "c4ca4238a0b923820dcc509a6f75849b",
       "eccbc87e4b5ce2fe28308fd9f2a7baf3" >>

(***************************************************************************)
(* The files a client submits.                                             *)
(***************************************************************************)
UploadFiles ==
    { [filename |-> FileName("test", ".txt"),  size |-> 42,                content |-> "short"],
      [filename |-> FileName("notes", ".TXT"), size |-> 3,                 content |-> "blank"],
      [filename |-> FileName("doc", ".pdf"),   size |-> MAX_FILE_SIZE,     content |-> "long"],
      [filename |-> FileName("test", ".docx"), size |-> 20,                content |-> "short"],
      [filename |-> FileName("big", ".txt"),   size |-> MAX_FILE_SIZE + 1, content |-> "long"] }

FileLists == UNION { [1..n -> UploadFiles] : n \in 0..MaxFiles }


(***************************************************************************)
(* DocumentProcessor (services/document_processor.py).                     *)
(***************************************************************************)
\* validate_file without its size check.
validate_file_no_size_check(filename, file_size) ==
    IF Lower(Suffix(filename)) \notin ALLOWED_EXTENSIONS
    THEN <<FALSE, "file type not allowed">>
    ELSE <<TRUE, None>>

\* validate_file rejecting a file of exactly the maximum size.
validate_file_max_exclusive(filename, file_size) ==
    LET file_ext == Lower(Suffix(filename)) IN
    IF file_ext \notin ALLOWED_EXTENSIONS THEN <<FALSE, "file type not allowed">>
    ELSE IF file_size >= MAX_FILE_SIZE THEN <<FALSE, "file size exceeds maximum">>
    ELSE <<TRUE, None>>

\* validate_file: <<is_valid, error_message>>; the extension is checked first.
validate_file(filename, file_size) ==
    LET file_ext == Lower(Suffix(filename)) IN
    IF file_ext \notin ALLOWED_EXTENSIONS THEN <<FALSE, "file type not allowed">>
    ELSE IF file_size > MAX_FILE_SIZE THEN <<FALSE, "file size exceeds maximum">>
    ELSE <<TRUE, None>>

\* save_file: the generated name is uuid4().hex followed by the lower-cased
\* extension; n counts the names generated so far.
UniqueFilename(n, original_filename) ==
    FileName(UuidHex[n + 1], Lower(Suffix(original_filename)))

\* The path joins the upload directory and the generated name.
FilePath(unique_filename) == [dir |-> "./uploads", name |-> unique_filename]

\* extract_text on a file of the upload directory: <<"ok", text>> or
\* <<"raise", message>>.  disk maps the stored paths to their content.
extract_text(disk, file_path, file_type) ==
    LET t == Lower(file_type) IN
    IF t \notin {".txt", ".pdf"} THEN <<"raise", "Unsupported file type">>
    ELSE IF file_path \notin DOMAIN disk THEN <<"raise", "No such file or directory">>
    ELSE <<"ok", Strip(disk[file_path])>>

\* The number of chunks the recursive splitter makes of a text of length n
\* (chunk_size characters per chunk, chunk_overlap shared by neighbours).
NumChunks(n) ==
    IF n = 0 THEN 0
    ELSE IF n <= CHUNK_SIZE THEN 1
    ELSE 1 + ((n - CHUNK_SIZE) + (CHUNK_SIZE - CHUNK_OVERLAP) - 1)
                 \div (CHUNK_SIZE - CHUNK_OVERLAP)

\* split_text: the list of chunks; a chunk is named by its text and place.
split_text(text) ==
    IF Strip(text) = "" THEN << >>
    ELSE [i \in 1..NumChunks(StrippedLen(text)) |-> [text |-> text, part |-> i - 1]]

\* get_content_preview: the text, or its first max_length characters and "...".
get_content_preview(text) ==
    IF StrippedLen(text) <= PreviewMaxLength
    THEN [null |-> FALSE, text |-> text, chars |-> StrippedLen(text), ellipsis |-> FALSE]
    ELSE [null |-> FALSE, text |-> text, chars |-> PreviewMaxLength, ellipsis |-> TRUE]

\* A content_preview column that is NULL.
NoPreview == [null |-> TRUE, text |-> "", chars |-> 0, ellipsis |-> FALSE]

(***************************************************************************)
(* VectorStoreService (services/vector_store.py).  The collection maps an  *)
(* entry id to its document (the chunk) and metadata.                      *)
(***************************************************************************)
\* "doc_{document_id}_chunk_{i}"
EntryId(document_id, i) == [doc |-> document_id, chunk |-> i]

Metadata(document_id, document_name, user_id, i) ==
    [document_id |-> document_id, document_name |-> document_name,
     user_id |-> user_id, chunk_index |-> i]

\* add_documents iterating over range(len(chunks) - 1).
add_documents_off_by_one(coll, chunks, document_id, document_name, user_id) ==
    IF chunks = << >> THEN <<coll, 0>>
    ELSE LET ids == {EntryId(document_id, i - 1) : i \in 1..(Len(chunks) - 1)}
             new == [id \in ids |->
                        [document |-> chunks[id.chunk + 1],
                         metadata |-> Metadata(document_id, document_name,
                                               user_id, id.chunk)]]
         IN <<[id \in (DOMAIN coll) \cup ids |->
                  IF id \in DOMAIN coll THEN coll[id] ELSE new[id]],
              Len(chunks) - 1>>

\* collection.add: an id the collection already holds keeps its entry.
CollectionAdd(coll, new) ==
    [id \in (DOMAIN coll) \cup (DOMAIN new) |->
        IF id \in DOMAIN coll THEN coll[id] ELSE new[id]]

\* add_documents: <<collection afterwards, number of embeddings created>>.
add_documents(coll, chunks, document_id, document_name, user_id) ==
    IF chunks = << >> THEN <<coll, 0>>
    ELSE LET ids == {EntryId(document_id, i - 1) : i \in 1..Len(chunks)}
             new == [id \in ids |->
                        [document |-> chunks[id.chunk + 1],
                         metadata |-> Metadata(document_id, document_name,
                                               user_id, id.chunk)]]
         IN <<CollectionAdd(coll, new), Len(chunks)>>

\* collection.get(where={"document_id": d}) then collection.delete(ids).
EntriesOfDocument(coll, document_id) ==
    {id \in DOMAIN coll : coll[id].metadata.document_id = document_id}

delete_document(coll, document_id) ==
    [id \in (DOMAIN coll) \ EntriesOfDocument(coll, document_id) |-> coll[id]]

\* Cosine distance of the query's embedding to a chunk's, in hundredths
\* (0 .. 200).  The embedding is a deterministic function of the text.
Distance(query, chunk) ==
    ((query.len + TextLen(chunk.text) + 3 * chunk.part) % 5) * 50

\* The query without its where-filter.
Matching_any_user(coll, user_id) == DOMAIN coll

\* The where-filter of the query.
Matching(coll, user_id) ==
    {id \in DOMAIN coll : coll[id].metadata.user_id = user_id}

Before(coll, query, a, b) ==
    LET da == Distance(query, coll[a].document)
        db == Distance(query, coll[b].document)
    IN \/ da < db
       \/ da = db /\ a.doc < b.doc
       \/ da = db /\ a.doc = b.doc /\ a.chunk < b.chunk

RECURSIVE Nearest(_, _, _, _)
Nearest(coll, query, ids, k) ==
    IF k = 0 \/ ids = {} THEN << >>
    ELSE LET first == CHOOSE a \in ids :
                        \A b \in ids \ {a} : Before(coll, query, a, b)
         IN <<first>> \o Nearest(coll, query, ids \ {first}, k - 1)

Min(a, b) == IF a <= b THEN a ELSE b

\* round(1 - distance, 4), in hundredths.
RelevanceScore(distance) == 100 - distance

\* search: the hits, nearest first.
search(coll, query, user_id, n_results) ==
    LET total_count == Cardinality(DOMAIN coll)
        actual_n_results == IF total_count > 0 THEN Min(n_results, total_count) ELSE 1
        ids == Nearest(coll, query, Matching(coll, user_id), actual_n_results)
    IN [i \in 1..Len(ids) |->
           [id |-> ids[i],
            content |-> coll[ids[i]].document,
            metadata |-> coll[ids[i]].metadata,
            relevance_score |-> RelevanceScore(Distance(query, coll[ids[i]].document))]]


(***************************************************************************)
(* State.                                                                  *)
(***************************************************************************)
VARIABLES
    settings,          \* the process-wide configuration, fixed at start
    users,             \* the users table, in the order of insertion
    initialized,       \* the _initialized flags of the service singletons
    documents,         \* documents table: id -> row
    next_document_id,  \* the id the next inserted Document gets
    names_generated,   \* number of storage names save_file has generated
    disk,              \* upload directory: path -> content
    collection,        \* vector collection: entry id -> entry
    tasks,             \* scheduled ingestion tasks that have not ended
    chat_messages,     \* chat_messages table: sequence of rows, oldest first
    next_message_id,   \* the id the next inserted ChatMessage gets
    last_search,       \* the last call of VectorStoreService.search
    request,           \* the last HTTP request handled
    response           \* its response

vars == <<settings, users, initialized, documents, next_document_id, names_generated, disk,
          collection, tasks, chat_messages, next_message_id, last_search,
          request, response>>

store == <<documents, next_document_id, names_generated, disk, collection,
           tasks, chat_messages, next_message_id>>

EmptyFunction == [x \in {} |-> x]

NoSearch == [called |-> FALSE, raised |-> FALSE, user_id |-> 0, hits |-> << >>]
NoRequest == [endpoint |-> "none", token |-> [kind |-> NoToken, user |-> 0]]
NoResponse == [status |-> 0]

\* The state after start-up, under configuration cfg, with the accounts of
\* the two users registered.
InitWith(cfg) ==
    /\ settings = cfg
    /\ users = RegisteredUsers
    /\ initialized = [llm |-> FALSE, vector_store |-> FALSE]
    /\ documents = EmptyFunction
    /\ next_document_id = 1
    /\ names_generated = 0
    /\ disk = EmptyFunction
    /\ collection = EmptyFunction
    /\ tasks = << >>
    /\ chat_messages = << >>
    /\ next_message_id = 1
    /\ last_search = NoSearch
    /\ request = NoRequest
    /\ response = NoResponse

(***************************************************************************)
(* Lazy initialization of the service singletons.  _ensure_initialized     *)
(* returns at once when the flag is set; otherwise it builds the clients,  *)
(* which raises when init_ok is false, and then sets the flag.  Every      *)
(* service method calls it before entering its try block.                  *)
(***************************************************************************)
\* VectorStoreService._ensure_initialized raises.
VectorStoreInitRaises(init_ok) == ~initialized.vector_store /\ ~init_ok

\* LLMService._ensure_initialized raises: only the construction of a chat
\* model can; without an API key no client is built.
LLMInitRaises(init_ok) ==
    ~initialized.llm /\ settings.llm_backend # "mock" /\ ~init_ok

InternalError == [status |-> 500, detail |-> "An unexpected error occurred"]

(***************************************************************************)
(* The session's unit of work.  A commit writes the columns assigned since *)
(* the object was loaded: every assigned column when the object's          *)
(* attributes were expired by an earlier commit of the session, else the   *)
(* assigned columns whose value differs from the loaded one.               *)
(***************************************************************************)
\* processed_at is assigned datetime.utcnow(), a value no loaded row holds.
FreshColumns == {"processed"}

Flush(row, loaded, assigned, expired) ==
    [f \in DOMAIN row |->
        IF /\ f \in DOMAIN assigned
           /\ \/ expired
              \/ loaded[f] # assigned[f]
              \/ f \in FreshColumns /\ assigned[f] = TRUE
        THEN assigned[f] ELSE row[f]]

\* The object as the session holds it after its assignments.
Assign(loaded, assigned) ==
    [f \in DOMAIN loaded |-> IF f \in DOMAIN assigned THEN assigned[f] ELSE loaded[f]]

\* Document(...) as upload_documents constructs it, with the column defaults.
NewDocument(id, unique_filename, file, user_id) ==
    [id |-> id,
     filename |-> unique_filename,
     original_filename |-> file.filename,
     file_path |-> FilePath(unique_filename),
     file_type |-> Lower(Suffix(file.filename)),
     file_size |-> file.size,
     status |-> PENDING,
     chunk_count |-> 0,
     embedding_count |-> 0,
     content_preview |-> NoPreview,
     error_message |-> None,
     processed |-> FALSE,
     user_id |-> user_id]

\* DocumentResponse.model_validate(document): the fields are read from the
\* attributes of the same name.
DocumentResponse(document) ==
    [id |-> document.id,
     filename |-> document.filename,
     file_type |-> document.file_type,
     file_size |-> document.file_size,
     status |-> document.status,
     chunk_count |-> document.chunk_count,
     embedding_count |-> document.embedding_count,
     content_preview |-> document.content_preview,
     processed |-> document.processed,
     error_message |-> document.error_message]

\* The task's local variable document before the task has loaded it.
NotLoaded ==
    NewDocument(0, FileName("", ""),
                [filename |-> FileName("", ""), size |-> 0, content |-> ""], 0)

\* A task that is run where add_task is called, up to its first commit.
NewTask_running(document_id, file_path, file_type, user_id, document_name, batch) ==
    [document_id |-> document_id, file_path |-> file_path, file_type |-> file_type,
     user_id |-> user_id, document_name |-> document_name, batch |-> batch,
     pc |-> "extract", document |-> NotLoaded, text |-> "",
     chunks |-> << >>, embedding_count |-> 0]

\* background_tasks.add_task(process_document_background, ...)
NewTask(document_id, file_path, file_type, user_id, document_name, batch) ==
    [document_id |-> document_id, file_path |-> file_path, file_type |-> file_type,
     user_id |-> user_id, document_name |-> document_name, batch |-> batch,
     pc |-> "start", document |-> NotLoaded, text |-> "",
     chunks |-> << >>, embedding_count |-> 0]


(***************************************************************************)
(* process_document_background (api/routes/documents.py).                  *)
(***************************************************************************)
RemoveAt(seq, i) == [j \in 1..(Len(seq) - 1) |-> IF j < i THEN seq[j] ELSE seq[j + 1]]

\* The tasks of one request run one after the other, in the order they were
\* added; tasks of different requests interleave.
Runnable(i) ==
    \/ tasks[i].batch = 0
    \/ \A j \in 1..(i - 1) : tasks[j].batch # tasks[i].batch

\* What the task's session holds of the row when it re-reads it: the row when
\* a commit expired the object, else the object as the task left it.
Reloaded(t, row) == IF settings.expire_on_commit THEN row ELSE t.document

\* An except-branch that marks every document failed.
RecordFailure_every_row(docs, t, message) ==
    [d \in DOMAIN docs |-> [docs[d] EXCEPT !.status = FAILED, !.error_message = message]]

\* The except-branch: re-fetch the document and mark it failed.  When the row
\* is gone nothing is recorded.
RecordFailure(docs, t, message) ==
    IF t.document_id \notin DOMAIN docs THEN docs
    ELSE [docs EXCEPT ![t.document_id] =
            Flush(@, Reloaded(t, @),
                  [status |-> FAILED, error_message |-> message],
                  FALSE)]

\* A commit of the task's assignments.  The UPDATE of a row that is gone
\* matches no row; the commit raises, the session is left unusable and the
\* except-branch cannot record anything.
CommitTask(docs, t, assigned) ==
    IF t.document_id \notin DOMAIN docs THEN docs
    ELSE [docs EXCEPT ![t.document_id] =
            Flush(@, t.document, assigned, settings.expire_on_commit)]

\* Lines 36-46: load the document, set it processing, commit.
TaskStart(i) ==
    /\ i \in 1..Len(tasks)
    /\ Runnable(i)
    /\ tasks[i].pc = "start"
    /\ LET t == tasks[i] IN
       IF t.document_id \notin DOMAIN documents
       THEN /\ tasks' = RemoveAt(tasks, i)
            /\ UNCHANGED documents
       ELSE LET row == documents[t.document_id]
                assigned == [status |-> PROCESSING]
            IN /\ documents' = [documents EXCEPT ![t.document_id] =
                                   Flush(row, row, assigned, FALSE)]
               /\ tasks' = [tasks EXCEPT ![i].pc = "extract",
                                         ![i].document = Assign(row, assigned)]
    /\ UNCHANGED <<settings, users, initialized, next_document_id, names_generated, disk, collection,
                   chat_messages, next_message_id, last_search, request, response>>

\* Lines 48-55: extract the text; a blank text fails the document.
TaskExtract(i) ==
    /\ i \in 1..Len(tasks)
    /\ Runnable(i)
    /\ tasks[i].pc = "extract"
    /\ LET t == tasks[i]
           r == extract_text(disk, t.file_path, t.file_type)
       IN IF r[1] = "raise"
          THEN /\ documents' = RecordFailure(documents, t, r[2])
               /\ tasks' = RemoveAt(tasks, i)
          ELSE IF Strip(r[2]) = ""
          THEN /\ documents' = CommitTask(documents, t,
                     [status |-> FAILED,
                      error_message |-> "No text content could be extracted from the file"])
               /\ tasks' = RemoveAt(tasks, i)
          ELSE /\ tasks' = [tasks EXCEPT ![i].pc = "index", ![i].text = r[2]]
               /\ UNCHANGED documents
    /\ UNCHANGED <<settings, users, initialized, next_document_id, names_generated, disk, collection,
                   chat_messages, next_message_id, last_search, request, response>>

\* Lines 57-79: split, add the chunks to the collection, assign the results.
\* embed_ok is whether the embedding and the insertion succeed; init_ok is
\* whether the vector store can be initialized, if it is not yet.
TaskIndex(i, init_ok, embed_ok) ==
    /\ i \in 1..Len(tasks)
    /\ Runnable(i)
    /\ tasks[i].pc = "index"
    /\ LET t == tasks[i]
           chunks == split_text(t.text)
           added == add_documents(collection, chunks, t.document_id,
                                  t.document_name, t.user_id)
       IN IF chunks = << >>
          THEN /\ documents' = CommitTask(documents, t,
                     [status |-> FAILED,
                      error_message |-> "Failed to split document into chunks"])
               /\ tasks' = RemoveAt(tasks, i)
               /\ UNCHANGED <<collection, initialized>>
          ELSE IF VectorStoreInitRaises(init_ok)
          THEN /\ documents' = RecordFailure(documents, t, "vector store unavailable")
               /\ tasks' = RemoveAt(tasks, i)
               /\ UNCHANGED <<collection, initialized>>
          ELSE IF ~embed_ok
          THEN /\ documents' = RecordFailure(documents, t, "embedding failed")
               /\ tasks' = RemoveAt(tasks, i)
               /\ initialized' = [initialized EXCEPT !.vector_store = TRUE]
               /\ UNCHANGED collection
          ELSE /\ collection' = added[1]
               /\ tasks' = [tasks EXCEPT ![i].pc = "commit",
                                         ![i].chunks = chunks,
                                         ![i].embedding_count = added[2]]
               /\ initialized' = [initialized EXCEPT !.vector_store = TRUE]
               /\ UNCHANGED documents
    /\ UNCHANGED <<settings, users, next_document_id, names_generated, disk,
                   chat_messages, next_message_id, last_search, request, response>>

\* Lines 74-81: the commit of the processing results.
TaskCommit(i) ==
    /\ i \in 1..Len(tasks)
    /\ Runnable(i)
    /\ tasks[i].pc = "commit"
    /\ LET t == tasks[i] IN
       /\ documents' = CommitTask(documents, t,
             [status |-> COMPLETED,
              chunk_count |-> Len(t.chunks),
              embedding_count |-> t.embedding_count,
              content_preview |-> get_content_preview(t.text),
              processed |-> TRUE])
       /\ tasks' = RemoveAt(tasks, i)
    /\ UNCHANGED <<settings, users, initialized, next_document_id, names_generated, disk, collection,
                   chat_messages, next_message_id, last_search, request, response>>


(***************************************************************************)
(* The current-user dependency: the user a bearer token resolves to, or 0  *)
(* when the request is answered 401.                                       *)
(***************************************************************************)
get_current_user(token) == IF token.kind = "bearer" /\ token.user \in Users THEN token.user ELSE 0

Unauthorized == [status |-> 401, detail |-> "Could not validate credentials"]
NotFound(what) == [status |-> 404, detail |-> what]

(***************************************************************************)
(* upload_documents (api/routes/documents.py), also behind POST /upload.   *)
(***************************************************************************)
\* The outcomes of save_file: the file is written; open() raises and no file
\* is made; write() raises and a file with part of the content stays.
SaveOutcomes == {"saved", "open_raises", "write_raises"}

WithFile(files_on_disk, file_path, content) ==
    [p \in (DOMAIN files_on_disk) \cup {file_path} |->
        IF p = file_path THEN content ELSE files_on_disk[p]]

\* The loop over the files, from file i on.  acc carries the session's new
\* rows, the upload directory, the tasks added and the counters; save_ok[i]
\* is the outcome of storing file i.
RECURSIVE UploadLoop(_, _, _, _, _)
UploadLoop(files, save_ok, user_id, i, acc) ==
    IF i > Len(files) THEN acc
    ELSE LET file == files[i]
             valid == validate_file(file.filename, file.size)
             unique_filename == UniqueFilename(acc.names, file.filename)
         IN IF ~valid[1]
            THEN UploadLoop(files, save_ok, user_id, i + 1,
                            [acc EXCEPT !.failed = @ + 1])
            ELSE IF save_ok[i] = "open_raises"
            THEN UploadLoop(files, save_ok, user_id, i + 1,
                            [acc EXCEPT !.names = @ + 1, !.failed = @ + 1])
            ELSE IF save_ok[i] = "write_raises"
            THEN UploadLoop(files, save_ok, user_id, i + 1,
                            [acc EXCEPT
                               !.names = @ + 1,
                               !.disk = WithFile(@, FilePath(unique_filename), "partial"),
                               !.failed = @ + 1])
            ELSE LET document == NewDocument(acc.next_id, unique_filename, file, user_id)
                     batch == IF acc.batch = 0 THEN document.id ELSE acc.batch
                 IN UploadLoop(files, save_ok, user_id, i + 1,
                      [acc EXCEPT
                         !.names = @ + 1,
                         !.disk = WithFile(@, document.file_path, file.content),
                         !.docs = [d \in (DOMAIN @) \cup {document.id} |->
                                      IF d = document.id THEN document ELSE @[d]],
                         !.next_id = @ + 1,
                         !.batch = batch,
                         !.tasks = Append(@, NewTask(document.id, document.file_path,
                                                     document.file_type, user_id,
                                                     file.filename, batch)),
                         !.out = Append(@, DocumentResponse(document)),
                         !.successful = @ + 1])

UploadResult(files, save_ok, user_id) ==
    UploadLoop(files, save_ok, user_id, 1,
               [docs |-> documents, next_id |-> next_document_id,
                names |-> names_generated, disk |-> disk, tasks |-> tasks,
                batch |-> 0, out |-> << >>, successful |-> 0, failed |-> 0])

\* The answer to a request whose parameters or body fail validation.
ValidationError == [status |-> 422, detail |-> "validation error"]

\* files: List[UploadFile] = File(...): the parameter is required, and a
\* request without any part named files does not supply it.
UploadRequestValid(files) == Len(files) >= 1

\* The parameters are validated once the dependencies are resolved and
\* before the handler is called.
upload_documents(endpoint, token, files, save_ok) ==
    LET current_user == get_current_user(token) IN
    /\ request' = [endpoint |-> endpoint, token |-> token, files |-> files,
                   save_ok |-> save_ok]
    /\ IF current_user = 0
       THEN /\ response' = Unauthorized
            /\ UNCHANGED store
       ELSE IF ~UploadRequestValid(files)
       THEN /\ response' = ValidationError
            /\ UNCHANGED store
       ELSE IF files = << >>
       THEN /\ response' = [status |-> 400, detail |-> "No files provided"]
            /\ UNCHANGED store
       ELSE LET r == UploadResult(files, save_ok, current_user) IN
            /\ documents' = r.docs
            /\ next_document_id' = r.next_id
            /\ names_generated' = r.names
            /\ disk' = r.disk
            /\ tasks' = r.tasks
            /\ response' = [status |-> 200,
                            documents |-> r.out,
                            total_uploaded |-> Len(files),
                            successful |-> r.successful,
                            failed |-> r.failed]
            /\ UNCHANGED <<collection, chat_messages, next_message_id>>
    /\ UNCHANGED <<settings, users, initialized, last_search>>

(***************************************************************************)
(* list_documents, get_document, delete_document, reprocess_document.      *)
(***************************************************************************)
\* The select without its filter on Document.user_id.
OwnedDocument_any_user(document_id, user_id) == document_id \in DOMAIN documents

\* select(Document).where(Document.id == document_id, Document.user_id == user)
OwnedDocument(document_id, user_id) ==
    /\ document_id \in DOMAIN documents
    /\ documents[document_id].user_id = user_id

OwnedDocuments(user_id) == {d \in DOMAIN documents : documents[d].user_id = user_id}

RECURSIVE SumOver(_, _)
SumOver(ids, field) ==
    IF ids = {} THEN 0
    ELSE LET d == CHOOSE x \in ids : TRUE
         IN documents[d][field] + SumOver(ids \ {d}, field)

list_documents(token) ==
    LET current_user == get_current_user(token) IN
    /\ request' = [endpoint |-> "GET /docs", token |-> token]
    /\ response' =
          IF current_user = 0 THEN Unauthorized
          ELSE [status |-> 200,
                documents |-> {DocumentResponse(documents[d]) : d \in OwnedDocuments(current_user)},
                total |-> Cardinality(OwnedDocuments(current_user)),
                total_chunks |-> SumOver(OwnedDocuments(current_user), "chunk_count"),
                total_embeddings |-> SumOver(OwnedDocuments(current_user), "embedding_count")]
    /\ UNCHANGED <<settings, users, initialized, last_search>>
    /\ UNCHANGED store

get_document(token, document_id) ==
    LET current_user == get_current_user(token) IN
    /\ request' = [endpoint |-> "GET /docs/{id}", token |-> token, document_id |-> document_id]
    /\ response' =
          IF current_user = 0 THEN Unauthorized
          ELSE IF ~OwnedDocument(document_id, current_user) THEN NotFound("Document not found")
          ELSE [status |-> 200, document |-> DocumentResponse(documents[document_id])]
    /\ UNCHANGED <<settings, users, initialized, last_search>>
    /\ UNCHANGED store

\* delete_document without the current-user dependency, selecting the
\* document by its id alone.
delete_document_route_no_auth(token, document_id, init_ok, vector_ok, file_ok) ==
    /\ request' = [endpoint |-> "DELETE /docs/{id}", token |-> token,
                   document_id |-> document_id]
    /\ IF document_id \notin DOMAIN documents
       THEN /\ response' = NotFound("Document not found")
            /\ UNCHANGED <<store, initialized>>
       ELSE IF VectorStoreInitRaises(init_ok)
       THEN /\ response' = InternalError
            /\ UNCHANGED <<store, initialized>>
       ELSE LET document == documents[document_id] IN
            /\ initialized' = [initialized EXCEPT !.vector_store = TRUE]
            /\ collection' = IF vector_ok THEN delete_document(collection, document_id)
                             ELSE collection
            /\ disk' = IF file_ok
                       THEN [p \in (DOMAIN disk) \ {document.file_path} |-> disk[p]]
                       ELSE disk
            /\ documents' = [d \in (DOMAIN documents) \ {document_id} |-> documents[d]]
            /\ response' = [status |-> 200, deleted |-> document.original_filename]
            /\ UNCHANGED <<next_document_id, names_generated, tasks,
                           chat_messages, next_message_id>>
    /\ UNCHANGED <<settings, users, last_search>>

\* vector_ok and file_ok are the booleans the two clean-up calls return: a
\* failure inside either is swallowed and leaves its store as it was.  A
\* vector store that cannot be initialized raises out of the handler, which
\* the application's exception handler answers with 500.
delete_document_route(token, document_id, init_ok, vector_ok, file_ok) ==
    LET current_user == get_current_user(token) IN
    /\ request' = [endpoint |-> "DELETE /docs/{id}", token |-> token,
                   document_id |-> document_id]
    /\ IF current_user = 0
       THEN /\ response' = Unauthorized
            /\ UNCHANGED <<store, initialized>>
       ELSE IF ~OwnedDocument(document_id, current_user)
       THEN /\ response' = NotFound("Document not found")
            /\ UNCHANGED <<store, initialized>>
       ELSE IF VectorStoreInitRaises(init_ok)
       THEN /\ response' = InternalError
            /\ UNCHANGED <<store, initialized>>
       ELSE LET document == documents[document_id] IN
            /\ initialized' = [initialized EXCEPT !.vector_store = TRUE]
            /\ collection' = IF vector_ok THEN delete_document(collection, document_id)
                             ELSE collection
            /\ disk' = IF file_ok
                       THEN [p \in (DOMAIN disk) \ {document.file_path} |-> disk[p]]
                       ELSE disk
            /\ documents' = [d \in (DOMAIN documents) \ {document_id} |-> documents[d]]
            /\ response' = [status |-> 200, deleted |-> document.original_filename]
            /\ UNCHANGED <<next_document_id, names_generated, tasks,
                           chat_messages, next_message_id>>
    /\ UNCHANGED <<settings, users, last_search>>

\* The attributes reprocess_document assigns.
ReprocessReset ==
    [status |-> PENDING, chunk_count |-> 0, embedding_count |-> 0,
     error_message |-> None, processed |-> FALSE]

reprocess_document(token, document_id, init_ok, vector_ok) ==
    LET current_user == get_current_user(token) IN
    /\ request' = [endpoint |-> "POST /docs/{id}/reprocess", token |-> token,
                   document_id |-> document_id]
    /\ IF current_user = 0
       THEN /\ response' = Unauthorized
            /\ UNCHANGED <<store, initialized>>
       ELSE IF ~OwnedDocument(document_id, current_user)
       THEN /\ response' = NotFound("Document not found")
            /\ UNCHANGED <<store, initialized>>
       ELSE IF VectorStoreInitRaises(init_ok)
       THEN /\ response' = InternalError
            /\ UNCHANGED <<store, initialized>>
       ELSE LET document == documents[document_id] IN
            /\ initialized' = [initialized EXCEPT !.vector_store = TRUE]
            /\ collection' = IF vector_ok THEN delete_document(collection, document_id)
                             ELSE collection
            /\ documents' = [documents EXCEPT ![document_id] =
                                Flush(@, @, ReprocessReset, FALSE)]
            /\ tasks' = Append(tasks, NewTask(document.id, document.file_path,
                                              document.file_type, current_user,
                                              document.original_filename, 0))
            /\ response' = [status |-> 200, queued |-> document.original_filename]
            /\ UNCHANGED <<next_document_id, names_generated, disk,
                           chat_messages, next_message_id>>
    /\ UNCHANGED <<settings, users, last_search>>


(***************************************************************************)
(* LLMService.answer_question (services/llm_service.py).                   *)
(***************************************************************************)
\* SourceDocument(content=content[:500], document_name, chunk_index, score)
SourceDocument(hit) ==
    [content |-> [chunk |-> hit.content, max_chars |-> SourceMaxLength],
     document_name |-> hit.metadata.document_name,
     chunk_index |-> hit.metadata.chunk_index,
     relevance_score |-> hit.relevance_score]

\* The hits search returns: a failure inside search yields the empty list.
SearchHits(question, user_id, search_ok) ==
    IF search_ok THEN search(collection, question, user_id, NSources) ELSE << >>

\* What a call of a service method comes to: the value it returns, or an
\* exception that leaves it.
Returned(value) == [raised |-> FALSE, value |-> value]
Raised == [raised |-> TRUE, value |-> << >>]

\* The dict answer_question's except branch returns.
ErrorAnswer(question) ==
    [answer |-> "I encountered an error while processing your question",
     sources |-> << >>, processing_time |-> 0, question |-> question]

\* answer_question.  llm_init_ok and vs_init_ok are whether the chat model
\* and the vector store can be initialized, search_ok whether the search's
\* embedding and query succeed, llm_ok whether the backend's call succeeds;
\* without a backend the mock response is used.  _ensure_initialized is
\* called before the try block, search and the backend inside it.
answer_question(question, user_id, llm_init_ok, vs_init_ok, search_ok, llm_ok) ==
    LET search_results == SearchHits(question, user_id, search_ok)
        context_empty == search_results = << >>
    IN IF LLMInitRaises(llm_init_ok) THEN Raised
       ELSE IF VectorStoreInitRaises(vs_init_ok) THEN Returned(ErrorAnswer(question))
       ELSE IF settings.llm_backend # "mock" /\ ~llm_ok
       THEN Returned(ErrorAnswer(question))
       ELSE Returned(
            [answer |-> IF settings.llm_backend # "mock" THEN "llm answer"
                        ELSE IF context_empty THEN "no relevant information"
                        ELSE "mock answer quoting the context",
             sources |-> [i \in 1..Len(search_results) |-> SourceDocument(search_results[i])],
             processing_time |-> 0, question |-> question])

\* The _initialized flags after a call of answer_question.
InitializedAfterAnswer(llm_init_ok, vs_init_ok) ==
    IF LLMInitRaises(llm_init_ok) THEN initialized
    ELSE [llm |-> TRUE,
          vector_store |-> initialized.vector_store \/ vs_init_ok]

\* The call of search that answer_question makes.
SearchOfAnswer(question, user_id, vs_init_ok, search_ok) ==
    IF VectorStoreInitRaises(vs_init_ok)
    THEN [called |-> TRUE, raised |-> TRUE, user_id |-> user_id, hits |-> << >>]
    ELSE [called |-> TRUE, raised |-> FALSE, user_id |-> user_id,
          hits |-> SearchHits(question, user_id, search_ok)]

(***************************************************************************)
(* Chat routes (api/routes/chat.py) and the AskRequest schema.             *)
(***************************************************************************)
\* AskRequest without max_length.
AskRequestValid_no_max(question) == question.len >= QuestionMinLength

\* AskRequest: question: str = Field(..., min_length=1, max_length=2000)
AskRequestValid(question) ==
    /\ question.len >= QuestionMinLength
    /\ question.len <= QuestionMaxLength

\* An exception that leaves answer_question is turned into a 500 by the
\* handler's except branch, before any row is added.
ask_question(token, question, llm_init_ok, vs_init_ok, search_ok, llm_ok) ==
    LET current_user == get_current_user(token) IN
    /\ request' = [endpoint |-> "POST /ask", token |-> token, question |-> question]
    /\ IF current_user = 0
       THEN /\ response' = Unauthorized
            /\ UNCHANGED <<store, last_search, initialized>>
       ELSE IF ~AskRequestValid(question)
       THEN /\ response' = ValidationError
            /\ UNCHANGED <<store, last_search, initialized>>
       ELSE LET call == answer_question(question, current_user, llm_init_ok,
                                        vs_init_ok, search_ok, llm_ok)
                result == call.value
                chat_message == [id |-> next_message_id,
                                 question |-> result.question,
                                 answer |-> result.answer,
                                 sources |-> result.sources,
                                 sources_null |-> (result.sources = << >>),
                                 processing_time |-> result.processing_time,
                                 user_id |-> current_user]
            IN IF call.raised
               THEN /\ response' = [status |-> 500,
                                    detail |-> "Failed to process question"]
                    /\ UNCHANGED <<store, last_search, initialized>>
               ELSE /\ initialized' = InitializedAfterAnswer(llm_init_ok, vs_init_ok)
                    /\ last_search' = SearchOfAnswer(question, current_user,
                                                     vs_init_ok, search_ok)
                    /\ chat_messages' = Append(chat_messages, chat_message)
                    /\ next_message_id' = next_message_id + 1
                    /\ response' = [status |-> 200, answer |-> result.answer,
                                    sources |-> result.sources,
                                    processing_time |-> result.processing_time,
                                    question |-> result.question]
                    /\ UNCHANGED <<documents, next_document_id, names_generated,
                                   disk, collection, tasks>>
    /\ UNCHANGED <<settings, users>>

\* The caller's messages ordered by created_at ascending.
Newest_oldest_first(rows, user_id) ==
    SelectSeq(rows, LAMBDA msg : msg.user_id = user_id)

\* The caller's messages, newest first.
RECURSIVE Newest(_, _)
Newest(rows, user_id) ==
    IF rows = << >> THEN << >>
    ELSE LET last == rows[Len(rows)]
             rest == Newest(SubSeq(rows, 1, Len(rows) - 1), user_id)
         IN IF last.user_id = user_id THEN <<last>> \o rest ELSE rest

HistoryItem(msg) ==
    [id |-> msg.id, question |-> msg.question, answer |-> msg.answer,
     sources |-> msg.sources, sources_null |-> msg.sources_null,
     processing_time |-> msg.processing_time]

get_chat_history(token, limit, offset) ==
    LET current_user == get_current_user(token)
        mine == Newest(chat_messages, current_user)
        page == SubSeq(mine, offset + 1, Min(Len(mine), offset + limit))
    IN
    /\ request' = [endpoint |-> "GET /ask/history", token |-> token,
                   limit |-> limit, offset |-> offset]
    /\ response' =
          IF current_user = 0 THEN Unauthorized
          ELSE IF limit < 1 \/ limit > 100 \/ offset < 0 THEN ValidationError
          ELSE [status |-> 200,
                messages |-> [i \in 1..Len(page) |-> HistoryItem(page[i])],
                total |-> Len(mine)]
    /\ UNCHANGED <<settings, users, initialized, last_search>>
    /\ UNCHANGED store

RECURSIVE Without(_, _)
Without(rows, drop) ==
    IF rows = << >> THEN << >>
    ELSE IF rows[1].id \in drop THEN Without(Tail(rows), drop)
    ELSE <<rows[1]>> \o Without(Tail(rows), drop)

MessagesOf(user_id) ==
    {chat_messages[i].id : i \in {j \in 1..Len(chat_messages) : chat_messages[j].user_id = user_id}}

clear_chat_history(token) ==
    LET current_user == get_current_user(token) IN
    /\ request' = [endpoint |-> "DELETE /ask/history", token |-> token]
    /\ IF current_user = 0
       THEN /\ response' = Unauthorized
            /\ UNCHANGED chat_messages
       ELSE /\ chat_messages' = Without(chat_messages, MessagesOf(current_user))
            /\ response' = [status |-> 200,
                            cleared |-> Cardinality(MessagesOf(current_user))]
    /\ UNCHANGED <<settings, users, initialized, last_search, documents, next_document_id,
                   names_generated, disk, collection, tasks, next_message_id>>

delete_chat_message(token, message_id) ==
    LET current_user == get_current_user(token) IN
    /\ request' = [endpoint |-> "DELETE /ask/history/{id}", token |-> token,
                   message_id |-> message_id]
    /\ IF current_user = 0
       THEN /\ response' = Unauthorized
            /\ UNCHANGED chat_messages
       ELSE IF message_id \notin MessagesOf(current_user)
       THEN /\ response' = NotFound("Message not found")
            /\ UNCHANGED chat_messages
       ELSE /\ chat_messages' = Without(chat_messages, {message_id})
            /\ response' = [status |-> 200, detail |-> "Chat message deleted successfully"]
    /\ UNCHANGED <<settings, users, initialized, last_search, documents, next_document_id,
                   names_generated, disk, collection, tasks, next_message_id>>

\* GET /auth/me: the profile of the current user.
auth_me(token) ==
    LET current_user == get_current_user(token) IN
    /\ request' = [endpoint |-> "GET /auth/me", token |-> token]
    /\ response' = IF current_user = 0 THEN Unauthorized
                   ELSE [status |-> 200, user |-> current_user]
    /\ UNCHANGED <<settings, users, initialized, last_search>>
    /\ UNCHANGED store


(***************************************************************************)
(* Requests and task steps, with their inputs drawn from the given sets.   *)
(***************************************************************************)
Configurations ==
    {[expire_on_commit |-> e, llm_backend |-> b] :
        e \in BOOLEAN, b \in {"mock", "anthropic"}}

Questions == {[len |-> n] : n \in {0, QuestionMinLength, QuestionMaxLength,
                                   QuestionMaxLength + 1}}

\* The number of files of a request that pass validation.
NumValid(files) ==
    Cardinality({i \in 1..Len(files) : validate_file(files[i].filename, files[i].size)[1]})

UploadFrom(tokens, endpoints, lists, oks, max_docs, max_tasks) ==
    \E token \in tokens, files \in lists, endpoint \in endpoints :
      \E save_ok \in [1..Len(files) -> oks \cup {"saved"}] :
        \* save_file is called for the files that pass validation only
        /\ \A i \in 1..Len(files) :
              ~validate_file(files[i].filename, files[i].size)[1] => save_ok[i] = "saved"
        /\ names_generated + NumValid(files) <= max_docs
        /\ Len(tasks) + NumValid(files) <= max_tasks
        /\ upload_documents(endpoint, token, files, save_ok)

DeleteFrom(tokens, ids) ==
    \E token \in tokens, d \in ids, init_ok \in BOOLEAN,
       vector_ok \in BOOLEAN, file_ok \in BOOLEAN :
        /\ initialized.vector_store => init_ok
        /\ delete_document_route(token, d, init_ok, vector_ok, file_ok)

ReprocessFrom(tokens, ids, max_tasks) ==
    \E token \in tokens, d \in ids, init_ok \in BOOLEAN, vector_ok \in BOOLEAN :
        /\ Len(tasks) < max_tasks
        /\ initialized.vector_store => init_ok
        /\ reprocess_document(token, d, init_ok, vector_ok)

AskFrom(tokens, questions, max_messages) ==
    \E token \in tokens, q \in questions, llm_init_ok \in BOOLEAN,
       vs_init_ok \in BOOLEAN, search_ok \in BOOLEAN, llm_ok \in BOOLEAN :
        /\ \/ next_message_id <= max_messages
           \/ get_current_user(token) = 0
           \/ ~AskRequestValid(q)
        /\ initialized.llm => llm_init_ok
        /\ initialized.vector_store => vs_init_ok
        /\ ask_question(token, q, llm_init_ok, vs_init_ok, search_ok, llm_ok)

Ingest ==
    \E i \in 1..Len(tasks) :
        \/ TaskStart(i)
        \/ TaskExtract(i)
        \/ \E init_ok \in BOOLEAN, embed_ok \in BOOLEAN :
              /\ initialized.vector_store => init_ok
              /\ TaskIndex(i, init_ok, embed_ok)
        \/ TaskCommit(i)

(***************************************************************************)
(* Spec: the life of the documents of one user.  The user uploads single   *)
(* files, deletes and reprocesses them while the ingestion tasks run.      *)
(***************************************************************************)
Owner == 1

ValidFiles == {f \in UploadFiles : validate_file(f.filename, f.size)[1]}

SingleFiles == {<<f>> : f \in ValidFiles}

Init ==
    \E cfg \in {c \in Configurations : c.llm_backend = "mock"} : InitWith(cfg)

Upload == UploadFrom({TokenOf(Owner)}, {"POST /docs/upload"}, SingleFiles, {"saved"}, MaxDocs, MaxTasks)

DeleteDocument == DeleteFrom({TokenOf(Owner)}, 1..MaxDocs)

Reprocess == ReprocessFrom({TokenOf(Owner)}, 1..MaxDocs, MaxTasks)

Next ==
    \/ Upload
    \/ DeleteDocument
    \/ Reprocess
    \/ Ingest

Spec == Init /\ [][Next]_vars

(***************************************************************************)
(* Properties of the life of a document, checked under Spec.               *)
(***************************************************************************)
UploadEndpoints == {"POST /docs/upload", "POST /upload"}

\* A step that handles a request.
RequestStep == request' # request \/ response' # response

\* A step in which an upload request is answered 200.
UploadStep ==
    /\ request'.endpoint \in UploadEndpoints
    /\ response'.status = 200
    /\ Len(tasks') >= Len(tasks)
    /\ SubSeq(tasks', 1, Len(tasks)) = tasks

\* The scheduled tasks of document d that have not ended.
LiveTasks(d) == {i \in 1..Len(tasks) : tasks[i].document_id = d}

\* Document d was created and its row has been deleted.
Deleted(d) == d < next_document_id /\ d \notin DOMAIN documents

\* Some search by some user returns a chunk of document d.
Searchable(d) ==
    \E u \in Users, q \in Questions :
        LET hits == search(collection, q, u, NSources)
        IN \E i \in 1..Len(hits) : hits[i].metadata.document_id = d

\* C1: once the DELETE of a document has succeeded, the documents table holds
\* no row for it and the vector index no entry tagged with it, so no search
\* returns one of its chunks, whatever the ingestion task of the document
\* does afterwards and whatever the vector-index delete returned.
C1_DeletedDocumentLeavesNoEntries ==
    \A d \in 1..MaxDocs :
        Deleted(d) => /\ EntriesOfDocument(collection, d) = {}
                      /\ ~Searchable(d)

\* C3: every change of a document's stored status is pending -> processing,
\* processing -> completed, processing -> failed, or a reset to pending.
AllowedStatusChange(a, b) ==
    \/ a = PENDING /\ b = PROCESSING
    \/ a = PROCESSING /\ b = COMPLETED
    \/ a = PROCESSING /\ b = FAILED
    \/ b = PENDING

C3_StatusTransitions ==
    [][\A d \in (DOMAIN documents) \cap (DOMAIN documents') :
          documents[d].status # documents'[d].status
             => AllowedStatusChange(documents[d].status, documents'[d].status)]_vars

\* C4: a document that is not completed has chunk_count 0 and
\* embedding_count 0.
C4_CountsZeroUntilCompleted ==
    \A d \in DOMAIN documents :
        documents[d].status # COMPLETED
           => documents[d].chunk_count = 0 /\ documents[d].embedding_count = 0

\* A step in which reprocess_document succeeds.
ReprocessStep ==
    /\ request'.endpoint = "POST /docs/{id}/reprocess"
    /\ response'.status = 200
    /\ Len(tasks') = Len(tasks) + 1

\* C5: a successful reprocess leaves no vector-index entry of the document
\* and leaves its row pending with both counts 0, the content preview cleared
\* and the error message cleared, with its ingestion scheduled again.
C5_ReprocessResets ==
    [][ReprocessStep =>
          LET d == request'.document_id IN
          /\ EntriesOfDocument(collection', d) = {}
          /\ documents'[d].status = PENDING
          /\ documents'[d].chunk_count = 0
          /\ documents'[d].embedding_count = 0
          /\ documents'[d].content_preview = NoPreview
          /\ documents'[d].error_message = None
          /\ tasks'[Len(tasks')].document_id = d
          /\ tasks'[Len(tasks')].pc = "start"]_vars

\* The last request handled is the upload of one file that created document d.
JustUploaded(d) ==
    /\ request.endpoint \in UploadEndpoints
    /\ response.status = 200
    /\ Len(request.files) = 1
    /\ Len(response.documents) = 1
    /\ response.documents[1].id = d

CountsOfCompleted(d) ==
    /\ documents[d].chunk_count >= 1
    /\ documents[d].embedding_count = documents[d].chunk_count

BlankText(d) == Strip(disk[documents[d].file_path]) = ""

ScheduledTasks == (Len(tasks) + 1)..Len(tasks')

\* C19: upload and reprocess return before the ingestion runs: every
\* document record of an upload's response is pending with chunk_count 0 and
\* embedding_count 0, and when either handler returns, the task it has
\* scheduled has not performed its first step.
C19_HandlersReturnBeforeIngestion ==
    [][/\ UploadStep =>
             /\ \A i \in 1..Len(response'.documents) :
                   /\ response'.documents[i].status = PENDING
                   /\ response'.documents[i].chunk_count = 0
                   /\ response'.documents[i].embedding_count = 0
             /\ Len(tasks') = Len(tasks) + response'.successful
             /\ \A j \in ScheduledTasks :
                   /\ tasks'[j].pc = "start"
                   /\ tasks'[j].document = NotLoaded
                   /\ documents'[tasks'[j].document_id].status = PENDING
       /\ ReprocessStep =>
             /\ tasks'[Len(tasks')].document_id = request'.document_id
             /\ tasks'[Len(tasks')].pc = "start"
             /\ tasks'[Len(tasks')].document = NotLoaded
             /\ documents'[request'.document_id].status = PENDING]_vars

\* C19 witness: an upload has been answered with one pending record while
\* the task of its document has yet to start.
C19_Witness ==
    /\ request.endpoint \in UploadEndpoints
    /\ response.status = 200
    /\ Len(response.documents) = 1
    /\ response.documents[1].status = PENDING
    /\ \E j \in 1..Len(tasks) :
          /\ tasks[j].document_id = response.documents[1].id
          /\ tasks[j].pc = "start"
    /\ response.documents[1].id \in DOMAIN documents
    /\ documents[response.documents[1].id].status = PENDING

(***************************************************************************)
(* SpecIndex: the vector store service called directly, by any user.       *)
(***************************************************************************)
IndexMaxDocs == 2

InitIndex == InitWith([expire_on_commit |-> TRUE, llm_backend |-> "mock"])

\* add_documents called directly: a failure of the initialization raises,
\* one of the embedding or the insertion raises after it.
IndexAddFrom(owners, ids, contents) ==
    \E u \in owners, d \in ids, c \in contents,
       init_ok \in BOOLEAN, embed_ok \in BOOLEAN :
        /\ initialized.vector_store => init_ok
        /\ IF VectorStoreInitRaises(init_ok)
           THEN UNCHANGED <<collection, initialized>>
           ELSE /\ initialized' = [initialized EXCEPT !.vector_store = TRUE]
                /\ collection' = IF embed_ok
                                 THEN add_documents(collection, split_text(c), d,
                                                    FileName("test", ".txt"), u)[1]
                                 ELSE collection
        /\ UNCHANGED <<settings, users, documents, next_document_id, names_generated, disk,
                       tasks, chat_messages, next_message_id, last_search,
                       request, response>>

IndexAdd == IndexAddFrom(Users, 1..IndexMaxDocs, Contents)

IndexDelete ==
    \E d \in 1..IndexMaxDocs, init_ok \in BOOLEAN :
        /\ initialized.vector_store => init_ok
        /\ IF VectorStoreInitRaises(init_ok)
           THEN UNCHANGED <<collection, initialized>>
           ELSE /\ initialized' = [initialized EXCEPT !.vector_store = TRUE]
                /\ collection' = delete_document(collection, d)
        /\ UNCHANGED <<settings, users, documents, next_document_id, names_generated, disk,
                       tasks, chat_messages, next_message_id, last_search,
                       request, response>>

\* search called directly.  search_ok is whether the embedding of the query
\* and the query of the collection succeed.
IndexSearch ==
    \E u \in Users, q \in Questions, n_results \in {1, NSources},
       init_ok \in BOOLEAN, search_ok \in BOOLEAN :
        /\ initialized.vector_store => init_ok
        /\ IF VectorStoreInitRaises(init_ok)
           THEN /\ last_search' = [called |-> TRUE, raised |-> TRUE,
                                   user_id |-> u, hits |-> << >>]
                /\ UNCHANGED initialized
           ELSE /\ last_search' = [called |-> TRUE, raised |-> FALSE, user_id |-> u,
                                   hits |-> IF search_ok
                                            THEN search(collection, q, u, n_results)
                                            ELSE << >>]
                /\ initialized' = [initialized EXCEPT !.vector_store = TRUE]
        /\ UNCHANGED <<settings, users, store, request, response>>

NextIndex ==
    \/ IndexAdd
    \/ IndexDelete
    \/ IndexSearch

SpecIndex == InitIndex /\ [][NextIndex]_vars

HitsOwnedBy(hits, u) ==
    \A i \in 1..Len(hits) : hits[i].metadata.user_id = u

\* C2: after any sequence of add_documents, delete_document and search calls
\* by any users, every hit of search(query, user_id = u) carries the user_id
\* metadata u: the hits of the last search made, and of every search that
\* could be made now, which are entries of the collection.
C2_SearchReturnsOwnChunksOnly ==
    /\ last_search.called => HitsOwnedBy(last_search.hits, last_search.user_id)
    /\ \A u \in Users, q \in Questions :
          LET hits == search(collection, q, u, NSources) IN
          /\ HitsOwnedBy(hits, u)
          /\ \A i \in 1..Len(hits) :
                /\ hits[i].id \in DOMAIN collection
                /\ collection[hits[i].id].metadata = hits[i].metadata

\* C2 witness: a search returned a hit while the collection also holds a
\* chunk added for another user.
C2_Witness ==
    /\ last_search.called
    /\ Len(last_search.hits) >= 1
    /\ \E id \in DOMAIN collection :
          collection[id].metadata.user_id # last_search.user_id

\* C17: search never raises: when the initialization of the index, the
\* embedding of the query or the query of the index fails, the call returns
\* the empty list.
C17_SearchNeverRaises ==
    last_search.called => ~last_search.raised

(***************************************************************************)
(* SpecUpload: upload requests of both users with any list of files.       *)
(***************************************************************************)
UploadMaxDocs == 2

InitUpload == InitWith([expire_on_commit |-> TRUE, llm_backend |-> "mock"])

UploadAny ==
    UploadFrom({TokenOf(u) : u \in Users}, UploadEndpoints, FileLists,
               SaveOutcomes, UploadMaxDocs, UploadMaxDocs)

NextUpload == UploadAny

SpecUpload == InitUpload /\ [][NextUpload]_vars

\* The file has a disallowed extension or is oversize.
FailsValidation(file) ==
    \/ Lower(file.filename.ext) \notin {".txt", ".pdf"}
    \/ file.size > 10 * 1024 * 1024

RejectedFiles(files) == {i \in 1..Len(files) : FailsValidation(files[i])}

\* The valid files of the request that were stored, in the request's order.
RECURSIVE Kept(_, _)
Kept(files, save_ok) ==
    IF files = << >> THEN << >>
    ELSE LET rest == Kept(Tail(files), Tail(save_ok)) IN
         IF ~FailsValidation(files[1]) /\ save_ok[1] = "saved"
         THEN <<files[1]>> \o rest ELSE rest

NewRows == (DOMAIN documents') \ (DOMAIN documents)
NewStoredFiles == (DOMAIN disk') \ (DOMAIN disk)

C8_ResponseFilenameIsOriginal ==
    ( request.endpoint \in UploadEndpoints /\ response.status = 200 )
       => \A k \in 1..Len(response.documents) :
             response.documents[k].filename
                = Kept(request.files, request.save_ok)[k].filename

\* C18: an upload is answered 400 if and only if no files are supplied,
\* and then creates no row, file or task; an upload of any non-empty list
\* is answered 200 with its total, successful and failed counts, also when
\* every file fails validation.
C18_BadRequestIffNoFiles ==
    [][( /\ RequestStep
         /\ request'.endpoint \in UploadEndpoints
         /\ get_current_user(request'.token) # 0 )
       => IF request'.files = << >>
          THEN /\ response'.status = 400
               /\ UNCHANGED <<documents, disk, tasks>>
          ELSE /\ response'.status = 200
               /\ response'.total_uploaded = Len(request'.files)
               /\ response'.successful + response'.failed = Len(request'.files)]_vars

(***************************************************************************)
(* SpecApi: every authenticated endpoint, called with and without a valid  *)
(* bearer token, while the ingestion tasks run.                            *)
(***************************************************************************)
ApiMaxDocs == 1
ApiMaxTasks == 1
ApiMaxMessages == 1

\* No token, an invalid token, and the token of one user.
ApiTokens == Tokens \ {TokenOf(u) : u \in Users \ {Owner}}

ApiFileLists ==
    {<<f>> : f \in {g \in UploadFiles : g.filename.stem = "test"}}

InitApi == InitWith([expire_on_commit |-> TRUE, llm_backend |-> "mock"])

ApiUpload ==
    UploadFrom(ApiTokens, UploadEndpoints, ApiFileLists, {"saved"}, ApiMaxDocs, ApiMaxTasks)

ApiList == \E token \in ApiTokens : list_documents(token)

ApiGet == \E token \in ApiTokens, d \in 1..ApiMaxDocs : get_document(token, d)

ApiDelete == DeleteFrom(ApiTokens, 1..ApiMaxDocs)

ApiReprocess == ReprocessFrom(ApiTokens, 1..ApiMaxDocs, ApiMaxTasks)

ApiAsk == AskFrom(ApiTokens, Questions, ApiMaxMessages)

ApiHistory ==
    \E token \in ApiTokens, limit \in {1, 100}, offset \in {0, 1} :
        get_chat_history(token, limit, offset)

ApiClearHistory == \E token \in ApiTokens : clear_chat_history(token)

ApiDeleteMessage ==
    \E token \in ApiTokens, m \in 1..ApiMaxMessages : delete_chat_message(token, m)

ApiMe == \E token \in ApiTokens : auth_me(token)

NextApi ==
    \/ ApiUpload
    \/ ApiList
    \/ ApiGet
    \/ ApiDelete
    \/ ApiReprocess
    \/ ApiAsk
    \/ ApiHistory
    \/ ApiClearHistory
    \/ ApiDeleteMessage
    \/ ApiMe
    \/ Ingest

SpecApi == InitApi /\ [][NextApi]_vars

\* The request carries no bearer token of an active user.
WithoutValidToken(req) == ~(req.token.kind = "bearer" /\ req.token.user \in Users)

\* C9: a request without a valid bearer token to an authenticated endpoint is
\* answered 401 and changes no state: no row of documents or chat_messages,
\* no stored file, no vector-index entry and no scheduled task.
C9_UnauthenticatedChangesNothing ==
    [][( RequestStep /\ WithoutValidToken(request') )
          => /\ response'.status = 401
             /\ UNCHANGED <<documents, next_document_id, names_generated, disk,
                            collection, tasks, chat_messages, next_message_id>>]_vars

\* C9 witness: a DELETE of an existing document with an invalid token was
\* answered 401, while documents, files, index entries and messages exist.
C9_Witness ==
    /\ request.endpoint = "DELETE /docs/{id}"
    /\ request.token.kind = BadToken
    /\ request.document_id \in DOMAIN documents
    /\ response.status = 401
    /\ EntriesOfDocument(collection, request.document_id) # {}
    /\ Len(chat_messages) >= 1

\* C10: an ask request of an authenticated user whose question has length 0 or
\* more than 2000 is answered 422 with no search made and no chat message
\* created; a question of length 1..2000 is answered 200 and recorded.
C10_QuestionLength ==
    [][( request'.endpoint = "POST /ask" /\ ~WithoutValidToken(request') )
          => IF request'.question.len = 0 \/ request'.question.len > 2000
             THEN /\ response'.status = 422
                  /\ UNCHANGED <<chat_messages, next_message_id, last_search>>
             ELSE /\ response'.status = 200
                  /\ RequestStep =>
                        /\ Len(chat_messages') = Len(chat_messages) + 1
                        /\ chat_messages'[Len(chat_messages')].question = request'.question
                        /\ next_message_id' = next_message_id + 1
                        /\ last_search'.called]_vars

\* C10 witness: a question of 2001 characters was answered 422 after a
\* question of 2000 characters had been recorded.
C10_Witness ==
    /\ request.endpoint = "POST /ask"
    /\ ~WithoutValidToken(request)
    /\ request.question.len = 2001
    /\ response.status = 422
    /\ \E i \in 1..Len(chat_messages) : chat_messages[i].question.len = 2000

(***************************************************************************)
(* SpecAsk: questions asked of the LLM service directly and through        *)
(* POST /ask, by two users, with and without a configured backend, over    *)
(* an index that either user may have filled.                              *)
(***************************************************************************)
AskMaxDocs == 1
AskMaxMessages == 1

ValidQuestions == {q \in Questions : AskRequestValid(q)}

InitAsk == \E cfg \in {c \in Configurations : c.expire_on_commit} : InitWith(cfg)

AskIndexAdd == IndexAddFrom(Users, 1..AskMaxDocs, Contents \ {"blank"})

\* answer_question called directly; the call's outcome is kept in response.
LLMAnswer ==
    \E u \in Users, q \in ValidQuestions, llm_init_ok \in BOOLEAN,
       vs_init_ok \in BOOLEAN, search_ok \in BOOLEAN, llm_ok \in BOOLEAN :
        /\ initialized.llm => llm_init_ok
        /\ initialized.vector_store => vs_init_ok
        /\ request' = [endpoint |-> "answer_question", token |-> TokenOf(u),
                       question |-> q]
        /\ response' = answer_question(q, u, llm_init_ok, vs_init_ok, search_ok, llm_ok)
        /\ IF LLMInitRaises(llm_init_ok)
           THEN UNCHANGED <<initialized, last_search>>
           ELSE /\ initialized' = InitializedAfterAnswer(llm_init_ok, vs_init_ok)
                /\ last_search' = SearchOfAnswer(q, u, vs_init_ok, search_ok)
        /\ UNCHANGED <<settings, users, store>>

AskAny == AskFrom({TokenOf(u) : u \in Users}, ValidQuestions, AskMaxMessages)

NextAsk ==
    \/ AskIndexAdd
    \/ LLMAnswer
    \/ AskAny

SpecAsk == InitAsk /\ [][NextAsk]_vars

\* The request is a direct call of answer_question.
AnswerCall == request.endpoint = "answer_question"

\* C11: answer_question never raises, whichever of backend initialization,
\* retrieval or LLM invocation fails: every call returns a dict with the
\* keys answer, sources, processing_time and question.
C11_AnswerQuestionNeverRaises ==
    AnswerCall =>
        /\ ~response.raised
        /\ DOMAIN response.value = {"answer", "sources", "processing_time", "question"}

\* The request is a POST /ask of an authenticated user with a valid question.
ValidAsk(req) ==
    /\ req.endpoint = "POST /ask"
    /\ get_current_user(req.token) # 0
    /\ AskRequestValid(req.question)

\* C12: every POST /ask of an authenticated user with a valid
\* question is answered with HTTP 200, whichever step of the answer's
\* generation fails.
C12_AskAlways200 ==
    ValidAsk(request) => response.status = 200

\* A question of user u has been answered: answer_question has returned,
\* or POST /ask has responded with 200.
Answered(u) ==
    /\ request.token = TokenOf(u)
    /\ \/ AnswerCall /\ ~response.raised
       \/ ValidAsk(request) /\ response.status = 200

\* The answer's dict.
Answer == IF AnswerCall THEN response.value ELSE response

\* The index holds no chunk of user u.
NothingIngestedFor(u) ==
    ~\E id \in DOMAIN collection : collection[id].metadata.user_id = u

\* The mock's text for an empty context, or the reply of a backend, which
\* the system prompt instructs to say that the context has nothing relevant.
NoInformationAnswers == {"no relevant information", "llm answer"}

C15_RelevanceScoreInUnitInterval ==
    /\ \A i \in 1..Len(last_search.hits) :
          /\ last_search.hits[i].relevance_score >= 0
          /\ last_search.hits[i].relevance_score <= 100
    /\ \A u \in Users :
          Answered(u) =>
              \A i \in 1..Len(Answer.sources) :
                  /\ Answer.sources[i].relevance_score >= 0
                  /\ Answer.sources[i].relevance_score <= 100

(***************************************************************************)
(* SpecChat: the chat routes called by two users.                          *)
(***************************************************************************)
ChatMaxMessages == 3

ChatTokens == {TokenOf(u) : u \in Users}

InitChat == InitWith([expire_on_commit |-> TRUE, llm_backend |-> "mock"])

ChatAsk == AskFrom(ChatTokens, {[len |-> QuestionMinLength]}, ChatMaxMessages)

ChatHistory ==
    \E token \in ChatTokens, limit \in {1, 2, 100}, offset \in 0..ChatMaxMessages :
        get_chat_history(token, limit, offset)

ChatClearHistory == \E token \in ChatTokens : clear_chat_history(token)

ChatDeleteMessage ==
    \E token \in ChatTokens, m \in 1..ChatMaxMessages : delete_chat_message(token, m)

NextChat ==
    \/ ChatAsk
    \/ ChatHistory
    \/ ChatClearHistory
    \/ ChatDeleteMessage

SpecChat == InitChat /\ [][NextChat]_vars

\* The ids of the ChatMessage rows user u owns; ids are given in the order
\* of creation.
RowsOwnedBy(u) ==
    {chat_messages[i].id : i \in {j \in 1..Len(chat_messages) :
                                     chat_messages[j].user_id = u}}

Max(a, b) == IF a >= b THEN a ELSE b

\* C13: after any sequence of ask, delete-one and clear-history, the history
\* requested with (limit, offset) has total equal to the number of rows the
\* caller owns and min(limit, max(0, total - offset)) items, newest first:
\* the items are rows of the caller, each newer than the next with no row of
\* the caller between them, and offset rows of the caller are newer than the
\* first.
C13_HistoryPage ==
    ( request.endpoint = "GET /ask/history" /\ response.status = 200 ) =>
        LET mine == RowsOwnedBy(request.token.user)
            items == response.messages
            n == Len(items)
        IN /\ response.total = Cardinality(mine)
           /\ n = Min(request.limit, Max(0, response.total - request.offset))
           /\ \A i \in 1..n : items[i].id \in mine
           /\ \A i \in 1..(n - 1) :
                 /\ items[i].id > items[i + 1].id
                 /\ ~\E m \in mine : items[i + 1].id < m /\ m < items[i].id
           /\ n > 0 => Cardinality({m \in mine : m > items[1].id}) = request.offset

\* C13 witness: after three questions of one user, the history with limit 1
\* has one item, the newest, and total 3.
C13_Witness ==
    /\ request.endpoint = "GET /ask/history"
    /\ request.limit = 1
    /\ request.offset = 0
    /\ response.status = 200
    /\ response.total = 3
    /\ Len(response.messages) = 1
    /\ response.messages[1].id = 3

(***************************************************************************)
(* SpecOwner: the routes that address one document or one chat message by  *)
(* its id, called by two users on each other's rows and on ids that do     *)
(* not exist, while uploads are ingested.                                  *)
(***************************************************************************)
OwnerMaxDocs == 1
OwnerMaxTasks == 1
OwnerMaxMessages == 1

OwnerTokens == {TokenOf(u) : u \in Users}

OwnerFileLists ==
    {<<f>> : f \in {g \in UploadFiles : g.filename = FileName("test", ".txt")}}

InitOwner == InitWith([expire_on_commit |-> TRUE, llm_backend |-> "mock"])

OwnerUpload ==
    UploadFrom(OwnerTokens, {"POST /docs/upload"}, OwnerFileLists, {"saved"},
               OwnerMaxDocs, OwnerMaxTasks)

OwnerGet == \E token \in OwnerTokens, d \in 1..(OwnerMaxDocs + 1) : get_document(token, d)

OwnerDelete == DeleteFrom(OwnerTokens, 1..(OwnerMaxDocs + 1))

OwnerReprocess == ReprocessFrom(OwnerTokens, 1..(OwnerMaxDocs + 1), OwnerMaxTasks)

OwnerAsk == AskFrom(OwnerTokens, {[len |-> QuestionMinLength]}, OwnerMaxMessages)

OwnerDeleteMessage ==
    \E token \in OwnerTokens, m \in 1..(OwnerMaxMessages + 1) :
        delete_chat_message(token, m)

NextOwner ==
    \/ OwnerUpload
    \/ OwnerGet
    \/ OwnerDelete
    \/ OwnerReprocess
    \/ OwnerAsk
    \/ OwnerDeleteMessage
    \/ Ingest

SpecOwner == InitOwner /\ [][NextOwner]_vars

\* The request addresses a document by an id that no row of the caller has.
ForeignDocument(req) ==
    /\ req.endpoint \in {"GET /docs/{id}", "DELETE /docs/{id}",
                         "POST /docs/{id}/reprocess"}
    /\ \/ req.document_id \notin DOMAIN documents
       \/ documents[req.document_id].user_id # req.token.user

\* The request addresses a chat message by an id that no row of the caller has.
ForeignMessage(req) ==
    /\ req.endpoint = "DELETE /ask/history/{id}"
    /\ ~\E i \in 1..Len(chat_messages) :
          /\ chat_messages[i].id = req.message_id
          /\ chat_messages[i].user_id = req.token.user

\* C16: a get, delete or reprocess of a document, or a delete of a chat
\* message, by an authenticated user at an id that does not exist or that
\* another user owns is answered 404 and changes nothing: rows, stored
\* files, index entries, status and counts stay as they are and no
\* ingestion task is scheduled.
C16_ForeignIdIs404 ==
    [][( /\ RequestStep
         /\ request'.token.user \in Users
         /\ ForeignDocument(request') \/ ForeignMessage(request') )
       => /\ response'.status = 404
          /\ UNCHANGED <<documents, disk, collection, tasks, chat_messages,
                         next_document_id, next_message_id, names_generated>>]_vars

\* C16 witness: user 2's delete of user 1's completed document has been
\* answered 404, and the document, its file and its index entries are there.
C16_Witness ==
    /\ request.endpoint = "DELETE /docs/{id}"
    /\ request.token = TokenOf(2)
    /\ response.status = 404
    /\ request.document_id \in DOMAIN documents
    /\ documents[request.document_id].user_id = 1
    /\ documents[request.document_id].status = COMPLETED
    /\ documents[request.document_id].file_path \in DOMAIN disk
    /\ EntriesOfDocument(collection, request.document_id) # {}

(***************************************************************************)
(* SpecValidate: validate_file applied to a file name and a size.          *)
(***************************************************************************)
ValidateStems == {"test", "notes"}

ValidateExtensions == {".txt", ".TXT", ".Txt", ".pdf", ".PDF", ".docx", ".DOCX", ""}

ValidateSizes == {0, 1, 42, MAX_FILE_SIZE - 1, MAX_FILE_SIZE, MAX_FILE_SIZE + 1,
                  2 * MAX_FILE_SIZE}

InitValidate ==
    /\ settings = [expire_on_commit |-> TRUE, llm_backend |-> "mock"]
    /\ users = RegisteredUsers
    /\ initialized = [llm |-> FALSE, vector_store |-> FALSE]
    /\ documents = EmptyFunction
    /\ next_document_id = 1
    /\ names_generated = 0
    /\ disk = EmptyFunction
    /\ collection = EmptyFunction
    /\ tasks = << >>
    /\ chat_messages = << >>
    /\ next_message_id = 1
    /\ last_search = NoSearch
    /\ \E stem \in ValidateStems, ext \in ValidateExtensions, size \in ValidateSizes :
          request = [endpoint |-> "validate_file", token |-> NoRequest.token,
                     filename |-> FileName(stem, ext), size |-> size]
    /\ response = NoResponse

ValidateFile ==
    /\ response = NoResponse
    /\ LET result == validate_file(request.filename, request.size)
       IN response' = [status |-> 0, is_valid |-> result[1],
                       error_message |-> result[2]]
    /\ UNCHANGED <<settings, users, initialized, store, last_search, request>>

NextValidate == ValidateFile

SpecValidate == InitValidate /\ [][NextValidate]_vars

\* validate_file has been applied to the request's file name and size.
Validated == request.endpoint = "validate_file" /\ response # NoResponse

\* C20: validate_file reports valid if and only if the lower-cased extension
\* is .txt or .pdf and the size is at most the maximum, the maximum itself
\* included; otherwise it reports invalid with a reason, which names the
\* extension whenever the extension is not allowed, whatever the size.
C20_ValidateFile ==
    Validated =>
        LET extension_ok == Lower(request.filename.ext) \in {".txt", ".pdf"}
            size_ok == request.size <= MAX_FILE_SIZE
        IN /\ response.is_valid <=> (extension_ok /\ size_ok)
           /\ response.is_valid => response.error_message = None
           /\ ~response.is_valid => response.error_message \notin {None, ""}
           /\ ~extension_ok => response.error_message = "file type not allowed"
           /\ (extension_ok /\ ~size_ok)
                 => response.error_message = "file size exceeds maximum"

\* C20 witness: a file named with .TXT and of exactly the maximum size has
\* been reported valid.
C20_Witness ==
    /\ Validated
    /\ request.filename.ext = ".TXT"
    /\ request.size = MAX_FILE_SIZE
    /\ response.is_valid


(***************************************************************************)
(* Registration (POST /auth/register) over the users table.                *)
(***************************************************************************)
RegisterMaxUsers == 3

RegisterEmails == {"a@example.com", "b@example.com", "c@example.com"}
RegisterUsernames == {"alice", "bob", "carol"}

EmailTaken_never(table, email) == FALSE

\* users.email is unique: some row already holds the email.
EmailTaken(table, email) == \E i \in 1..Len(table) : table[i].email = email

\* users.username is unique: some row already holds the username.
UsernameTaken(table, username) == \E i \in 1..Len(table) : table[i].username = username

AlreadyRegistered == [status |-> 400, detail |-> "already registered"]

\* POST /auth/register: a duplicate email or username is rejected and no row
\* is inserted; otherwise the account is created and returned with a token.
register(email, username) ==
    /\ request' = [endpoint |-> "POST /auth/register", token |-> NoRequest.token,
                   email |-> email, username |-> username]
    /\ IF EmailTaken(users, email) \/ UsernameTaken(users, username)
       THEN /\ response' = AlreadyRegistered
            /\ UNCHANGED users
       ELSE LET id == Len(users) + 1 IN
            /\ users' = Append(users, User(id, email, username))
            /\ response' = [status |-> 201, access_token |-> TokenOf(id),
                            token_type |-> "bearer", user |-> User(id, email, username)]
    /\ UNCHANGED <<settings, initialized, store, last_search>>

InitRegister ==
    /\ settings = [expire_on_commit |-> TRUE, llm_backend |-> "mock"]
    /\ users = << >>
    /\ initialized = [llm |-> FALSE, vector_store |-> FALSE]
    /\ documents = EmptyFunction
    /\ next_document_id = 1
    /\ names_generated = 0
    /\ disk = EmptyFunction
    /\ collection = EmptyFunction
    /\ tasks = << >>
    /\ chat_messages = << >>
    /\ next_message_id = 1
    /\ last_search = NoSearch
    /\ request = NoRequest
    /\ response = NoResponse

Register ==
    /\ Len(users) < RegisterMaxUsers
    /\ \E email \in RegisterEmails, username \in RegisterUsernames :
          register(email, username)

NextRegister == Register

SpecRegister == InitRegister /\ [][NextRegister]_vars

\* The accounts of the table that hold the email.
AccountsWith(table, email) == {i \in 1..Len(table) : table[i].email = email}

\* C21: a registration whose email no account holds yet succeeds with 201
\* and creates exactly one account with that email (the username being free);
\* a registration whose email an account already holds is rejected with 400
\* "already registered" and creates no account, whatever its username; so no
\* two accounts ever share an email.
C21_DuplicateEmailRejected ==
    [][ request'.endpoint = "POST /auth/register" =>
          LET email == request'.email
              username == request'.username
          IN /\ AccountsWith(users, email) # {}
                  => /\ response' = [status |-> 400, detail |-> "already registered"]
                     /\ users' = users
             /\ (/\ AccountsWith(users, email) = {}
                 /\ \A i \in 1..Len(users) : users[i].username # username)
                  => /\ response'.status = 201
                     /\ response'.user.email = email
                     /\ Len(users') = Len(users) + 1
                     /\ Cardinality(AccountsWith(users', email)) = 1
             /\ \A e \in RegisterEmails : Cardinality(AccountsWith(users', e)) <= 1
      ]_vars

\* C21 witness: the email of the one existing account has been submitted
\* again under another username and has been rejected.
C21_Witness ==
    /\ request.endpoint = "POST /auth/register"
    /\ Len(users) = 1
    /\ users[1].email = request.email
    /\ users[1].username # request.username
    /\ response.status = 400


(***************************************************************************)
(* The mock embedding (VectorStoreService._get_mock_embedding).  A         *)
(* component (byte / 255.0) * 2 - 1 is held multiplied by 255, that is as  *)
(* the integer 2 * byte - 255 of -255..255.                                *)
(***************************************************************************)
EmbeddingDimension == 1536

EmbedMaxCalls == 3

MockTexts == {"", "a", "b", "test content", "Test content"}

\* hashlib.sha256(text.encode()).digest(): the 32 bytes of the digest.
Sha256(text) ==
    CASE text = "" ->
          << 227, 176, 196, 66, 152, 252, 28, 20, 154, 251, 244, 200, 153, 111, 185, 36,
             39, 174, 65, 228, 100, 155, 147, 76, 164, 149, 153, 27, 120, 82, 184, 85 >>
      [] text = "a" ->
          << 202, 151, 129, 18, 202, 27, 189, 202, 250, 194, 49, 179, 154, 35, 220, 77,
             167, 134, 239, 248, 20, 124, 78, 114, 185, 128, 119, 133, 175, 238, 72, 187 >>
      [] text = "b" ->
          << 62, 35, 232, 22, 0, 57, 89, 74, 51, 137, 79, 101, 100, 225, 177, 52,
             139, 189, 122, 0, 136, 212, 44, 74, 203, 115, 238, 174, 213, 156, 0, 157 >>
      [] text = "test content" ->
          << 106, 232, 167, 85, 85, 32, 159, 214, 196, 65, 87, 192, 174, 216, 1, 110,
             118, 63, 244, 53, 161, 156, 241, 134, 247, 104, 99, 20, 1, 67, 255, 114 >>
      [] text = "Test content" ->
          << 157, 149, 149, 197, 217, 79, 182, 91, 130, 79, 86, 233, 153, 149, 39, 219,
             169, 84, 36, 129, 88, 13, 105, 254, 184, 144, 86, 170, 186, 160, 170, 135 >>

_get_mock_embedding_unnormalized(text) ==
    LET hash_bytes == Sha256(text) IN
    [k \in 1..EmbeddingDimension |-> hash_bytes[((k - 1) % Len(hash_bytes)) + 1]]

\* _get_mock_embedding: component i (from 0) is the digest byte i mod 32,
\* normalized to [-1, 1].
_get_mock_embedding(text) ==
    LET hash_bytes == Sha256(text) IN
    [k \in 1..EmbeddingDimension |->
        LET byte_idx == (k - 1) % Len(hash_bytes)
        IN hash_bytes[byte_idx + 1] * 2 - 255]

\* The calls of _get_mock_embedding so far, with their results.
EmbeddingCalls == IF response = NoResponse THEN << >> ELSE response.calls

InitEmbed == InitWith([expire_on_commit |-> TRUE, llm_backend |-> "mock"])

\* One more call of _get_mock_embedding, on any text.
MockEmbedding ==
    /\ request.endpoint \in {"none", "_get_mock_embedding"}
    /\ Len(EmbeddingCalls) < EmbedMaxCalls
    /\ \E text \in MockTexts :
          /\ request' = [endpoint |-> "_get_mock_embedding", token |-> NoRequest.token,
                         text |-> text]
          /\ response' = [status |-> 0,
                          calls |-> Append(EmbeddingCalls,
                                           [text |-> text,
                                            embedding |-> _get_mock_embedding(text)])]
    /\ UNCHANGED <<settings, users, initialized, store, last_search>>

NextEmbed == MockEmbedding

SpecEmbed == InitEmbed /\ [][NextEmbed]_vars

\* C22: the mock embedding is deterministic and well-formed: two calls on
\* the same text return identical vectors, every vector has exactly 1536
\* components, and component i (counted from 0) is
\* (digest_byte[i mod digest_length] / 255) * 2 - 1, a value of [-1, 1]
\* (here times 255: 2 * byte - 255, a value of -255..255).
C22_MockEmbeddingDeterministic ==
    request.endpoint = "_get_mock_embedding" =>
        \A c \in 1..Len(EmbeddingCalls) :
            LET call == EmbeddingCalls[c]
                digest == Sha256(call.text)
            IN /\ Len(call.embedding) = 1536
               /\ \A i \in 0..1535 :
                     /\ call.embedding[i + 1] = 2 * digest[(i % Len(digest)) + 1] - 255
                     /\ call.embedding[i + 1] \in -255..255
               /\ \A c2 \in 1..Len(EmbeddingCalls) :
                     EmbeddingCalls[c2].text = call.text
                        => EmbeddingCalls[c2].embedding = call.embedding

\* C22 witness: the same text has been embedded twice and another text once,
\* with a different vector.
C22_Witness ==
    /\ request.endpoint = "_get_mock_embedding"
    /\ Len(EmbeddingCalls) = 3
    /\ EmbeddingCalls[1].text = EmbeddingCalls[3].text
    /\ EmbeddingCalls[2].text # EmbeddingCalls[1].text
    /\ EmbeddingCalls[2].embedding # EmbeddingCalls[1].embedding
    /\ Len(EmbeddingCalls[3].embedding) = 1536


(***************************************************************************)
(* Exceptions inside process_document_background, checked under Spec.      *)
(***************************************************************************)
\* Task i ends in this step in the except-branch, with the message of the
\* exception: extract_text raised, or add_documents raised.
TaskRaises(i, message) ==
    /\ i \in 1..Len(tasks)
    /\ tasks' = RemoveAt(tasks, i)
    /\ \/ /\ tasks[i].pc = "extract"
          /\ extract_text(disk, tasks[i].file_path, tasks[i].file_type)[1] = "raise"
          /\ message = extract_text(disk, tasks[i].file_path, tasks[i].file_type)[2]
       \/ /\ tasks[i].pc = "index"
          /\ split_text(tasks[i].text) # << >>
          /\ message \in {"vector store unavailable", "embedding failed"}

\* C23: when an exception ends an ingestion task, the document of the task,
\* if its row still exists, is left failed with the message of the exception
\* as its error_message.
C23_ExceptionLeavesFailedWithMessage ==
    [][ \A i \in 1..Len(tasks) :
          \A message \in {"Unsupported file type", "No such file or directory",
                          "vector store unavailable", "embedding failed"} :
             (TaskRaises(i, message) /\ tasks[i].document_id \in DOMAIN documents')
                => /\ documents'[tasks[i].document_id].status = FAILED
                   /\ documents'[tasks[i].document_id].error_message
                         \in (IF tasks[i].pc = "index"
                              THEN {"vector store unavailable", "embedding failed"}
                              ELSE {message})
      ]_vars


(***************************************************************************)
(* Progress of the ingestion, checked under Spec and, with the scheduled   *)
(* tasks being run, under SpecLive.                                        *)
(***************************************************************************)
\* The event loop runs every scheduled task.
SpecLive == Spec /\ WF_vars(Ingest)

\* The status of the document is completed or failed, or the row is gone.
Settled(d) ==
    d \in DOMAIN documents => documents[d].status \in {COMPLETED, FAILED}

(***************************************************************************)
(* SpecTasks: the ingestion of up to two documents of one user, with the   *)
(* database failing under a task.                                          *)
(***************************************************************************)
TasksMaxDocs == 2

TasksFileLists == {<<f>> : f \in ValidFiles} \cup {<<f, g>> : f \in ValidFiles, g \in ValidFiles}

\* A commit of the task raises while its row exists (the database is locked
\* or unreachable): the session is left in a rolled-back transaction, the
\* select of the except-branch raises in turn and is passed over, so the
\* task ends with the row as the last successful commit left it.
TaskCommitRaises(i) ==
    /\ i \in 1..Len(tasks)
    /\ Runnable(i)
    /\ tasks[i].pc \in {"start", "commit"}
    /\ tasks[i].document_id \in DOMAIN documents
    /\ tasks' = RemoveAt(tasks, i)
    /\ UNCHANGED <<settings, users, initialized, documents, next_document_id, names_generated,
                   disk, collection, chat_messages, next_message_id, last_search,
                   request, response>>

TasksMaxMessages == 1

InitTasks == \E cfg \in Configurations : InitWith(cfg)

TasksUpload ==
    UploadFrom({TokenOf(Owner)}, {"POST /docs/upload"}, TasksFileLists, {"saved"},
               TasksMaxDocs, TasksMaxDocs)

TasksDatabaseFails == \E i \in 1..Len(tasks) : TaskCommitRaises(i)

TasksAsk == AskFrom({TokenOf(Owner)}, {[len |-> QuestionMinLength]}, TasksMaxMessages)

NextTasks ==
    \/ TasksUpload
    \/ Ingest
    \/ TasksDatabaseFails
    \/ TasksAsk

SpecTasks == InitTasks /\ [][NextTasks]_vars

\* C24: no document remains pending or processing after its ingestion tasks
\* have ended: every document created by upload or reset by reprocess is
\* completed or failed once no task of it is left.
C24_NoTaskLeftThenSettled ==
    \A d \in DOMAIN documents : LiveTasks(d) = {} => Settled(d)

\* C24, as progress: every document that is pending or processing
\* eventually is completed or failed (or deleted).
C24_EventuallySettled ==
    \A d \in 1..MaxDocs : (~Settled(d)) ~> Settled(d)


(***************************************************************************)
(* Isolation of failures, checked under SpecTasks.                         *)
(***************************************************************************)
\* The step ends task i because add_documents raised.
EmbeddingFails(i) ==
    \E message \in {"vector store unavailable", "embedding failed"} :
        tasks[i].pc = "index" /\ TaskRaises(i, message)

\* The step answers a POST /ask whose backend call failed.
LLMCallFails ==
    /\ request'.endpoint = "POST /ask"
    /\ next_message_id' # next_message_id
    /\ response'.status = 200
    /\ response'.answer = "I encountered an error while processing your question"

\* Some task of the queue can take its next step.
SomeTaskRunnable(queue) ==
    queue # << >> =>
        \E j \in 1..Len(queue) :
            queue[j].batch = 0 \/ \A k \in 1..(j - 1) : queue[k].batch # queue[j].batch

\* C25: a failing embedding or LLM call affects only its own task or
\* request.  When add_documents fails in the task of one document, that
\* document becomes failed, every other row, every index entry and every
\* chat message is unchanged, and the other scheduled tasks stay scheduled
\* as they were and can run; when the backend call of an ask fails, the ask
\* is answered, and the documents, the index and the tasks are unchanged.
C25_FailureAffectsOnlyItsOwner ==
    [][ /\ \A i \in 1..Len(tasks) :
              EmbeddingFails(i) =>
                 LET d == tasks[i].document_id IN
                 /\ DOMAIN documents' = DOMAIN documents
                 /\ d \in DOMAIN documents => documents'[d].status = FAILED
                 /\ \A e \in DOMAIN documents \ {d} : documents'[e] = documents[e]
                 /\ collection' = collection
                 /\ chat_messages' = chat_messages
                 /\ Len(tasks') = Len(tasks) - 1
                 /\ \A j \in 1..Len(tasks') :
                        tasks'[j] = IF j < i THEN tasks[j] ELSE tasks[j + 1]
                 /\ SomeTaskRunnable(tasks')
        /\ LLMCallFails =>
              /\ documents' = documents
              /\ collection' = collection
              /\ tasks' = tasks
              /\ Len(chat_messages') = Len(chat_messages) + 1
      ]_vars

\* C25 witness: of two documents uploaded together the first is failed by
\* its embedding call, the second has been ingested after it, and an ask
\* whose backend call failed has been answered.
C25_Witness ==
    /\ DOMAIN documents = {1, 2}
    /\ documents[1].status = FAILED
    /\ documents[1].error_message = "embedding failed"
    /\ documents[2].status = COMPLETED
    /\ EntriesOfDocument(collection, 1) = {}
    /\ EntriesOfDocument(collection, 2) # {}
    /\ tasks = << >>
    /\ request.endpoint = "POST /ask"
    /\ response.status = 200
    /\ response.answer = "I encountered an error while processing your question"


(***************************************************************************)
(* SpecCleanup: the two clean-up calls, DocumentProcessor.delete_file and  *)
(* VectorStoreService.delete_document, called directly on stored files and *)
(* indexed documents.                                                      *)
(***************************************************************************)
CleanupMaxDocs == 2

CleanupPaths == {FilePath(UniqueFilename(n, FileName("test", ".txt"))) : n \in 0..(CleanupMaxDocs - 1)}

\* delete_file: <<the upload directory afterwards, the boolean returned>>.
\* remove_ok is whether os.remove succeeds.
delete_file(files_on_disk, file_path, remove_ok) ==
    IF file_path \notin DOMAIN files_on_disk THEN <<files_on_disk, TRUE>>
    ELSE IF remove_ok
    THEN <<[q \in (DOMAIN files_on_disk) \ {file_path} |-> files_on_disk[q]], TRUE>>
    ELSE <<files_on_disk, FALSE>>

InitCleanup == InitWith([expire_on_commit |-> TRUE, llm_backend |-> "mock"])

\* Files are stored and documents indexed before the clean-up calls begin.
CleanupSaveFile ==
    \E path \in CleanupPaths :
        /\ request = NoRequest
        /\ path \notin DOMAIN disk
        /\ disk' = WithFile(disk, path, "short")
        /\ UNCHANGED <<settings, users, initialized, documents, next_document_id,
                       names_generated, collection, tasks, chat_messages,
                       next_message_id, last_search, request, response>>

CleanupAdd ==
    /\ request = NoRequest
    /\ IndexAddFrom({Owner}, 1..CleanupMaxDocs, {"short", "long"})

CleanupDeleteFile ==
    \E path \in CleanupPaths, remove_ok \in BOOLEAN :
        LET result == delete_file(disk, path, remove_ok) IN
        /\ request' = [endpoint |-> "delete_file", token |-> NoRequest.token,
                       target |-> path]
        /\ disk' = result[1]
        /\ response' = Returned(result[2])
        /\ UNCHANGED <<settings, users, initialized, documents, next_document_id,
                       names_generated, collection, tasks, chat_messages,
                       next_message_id, last_search>>

\* delete_document called directly.  init_ok is whether the vector store can
\* be initialized, if it is not yet; vector_ok is whether the collection's
\* get and delete succeed.
CleanupDeleteDocument ==
    \E d \in 1..CleanupMaxDocs, init_ok \in BOOLEAN, vector_ok \in BOOLEAN :
        /\ initialized.vector_store => init_ok
        /\ request' = [endpoint |-> "delete_document", token |-> NoRequest.token,
                       target |-> d]
        /\ IF VectorStoreInitRaises(init_ok)
           THEN /\ response' = Raised
                /\ UNCHANGED <<collection, initialized>>
           ELSE /\ initialized' = [initialized EXCEPT !.vector_store = TRUE]
                /\ collection' = IF vector_ok THEN delete_document(collection, d)
                                 ELSE collection
                /\ response' = Returned(vector_ok)
        /\ UNCHANGED <<settings, users, documents, next_document_id, names_generated,
                       disk, tasks, chat_messages, next_message_id, last_search>>

NextCleanup ==
    \/ CleanupSaveFile
    \/ CleanupAdd
    \/ CleanupDeleteFile
    \/ CleanupDeleteDocument

SpecCleanup == InitCleanup /\ [][NextCleanup]_vars

\* The step is a clean-up call (or leaves everything as it is).
CleanupCall == request'.endpoint \in {"delete_file", "delete_document"}

\* The step repeats the clean-up call made just before it, which returned
\* true.
RepeatedCleanup ==
    /\ CleanupCall
    /\ request = request'
    /\ ~response.raised
    /\ response.value = TRUE

\* C26: the clean-up deletes never raise and are idempotent: delete_file
\* and delete_document report a failure inside them as false, and a second
\* call on the same path or document id after a successful first one does
\* not raise and, returning true, leaves the storage and the index as they
\* were.
C26_CleanupNeverRaisesAndIdempotent ==
    [][ /\ CleanupCall => /\ ~response'.raised
                          /\ response'.value \in BOOLEAN
        /\ RepeatedCleanup =>
              /\ ~response'.raised
              /\ response'.value = TRUE => (disk' = disk /\ collection' = collection)
      ]_vars


(***************************************************************************)
(* SpecLLM: the selection of the LLM backend (LLMService), under every     *)
(* configuration of LLM_PROVIDER and of the two API keys.                  *)
(***************************************************************************)
LLMProviders == {"anthropic", "openai", "Anthropic", "OPENAI", "azure"}

\* An API key is a string of the settings; the empty string is the default.
ApiKeys == {"", "sk-key"}

\* settings.LLM_PROVIDER.lower()
LowerProvider(provider) ==
    CASE provider = "Anthropic" -> "anthropic"
      [] provider = "OPENAI" -> "openai"
      [] OTHER -> provider

SelectProvider_openai_first(llm_provider, anthropic_api_key, openai_api_key) ==
    IF openai_api_key # "" THEN "openai"
    ELSE IF anthropic_api_key # "" THEN "anthropic"
    ELSE "mock"

\* _ensure_initialized: the value it gives self._provider.
SelectProvider(llm_provider, anthropic_api_key, openai_api_key) ==
    LET provider == LowerProvider(llm_provider) IN
    IF provider = "anthropic" /\ anthropic_api_key # "" THEN "anthropic"
    ELSE IF provider = "openai" /\ openai_api_key # "" THEN "openai"
    ELSE IF anthropic_api_key # "" THEN "anthropic"
    ELSE IF openai_api_key # "" THEN "openai"
    ELSE "mock"

InitLLM ==
    \E llm_provider \in LLMProviders, anthropic_api_key \in ApiKeys,
       openai_api_key \in ApiKeys :
        /\ settings = [expire_on_commit |-> TRUE,
                       llm_backend |-> SelectProvider(llm_provider, anthropic_api_key,
                                                      openai_api_key),
                       LLM_PROVIDER |-> llm_provider,
                       ANTHROPIC_API_KEY |-> anthropic_api_key,
                       OPENAI_API_KEY |-> openai_api_key]
        /\ users = RegisteredUsers
        /\ initialized = [llm |-> FALSE, vector_store |-> FALSE]
        /\ documents = EmptyFunction
        /\ next_document_id = 1
        /\ names_generated = 0
        /\ disk = EmptyFunction
        /\ collection = EmptyFunction
        /\ tasks = << >>
        /\ chat_messages = << >>
        /\ next_message_id = 1
        /\ last_search = NoSearch
        /\ request = NoRequest
        /\ response = NoResponse

\* health_check: the dict it returns, or the exception of the chat model's
\* constructor, which leaves the service uninitialized.
health_check(init_ok) ==
    /\ request' = [endpoint |-> "health_check", token |-> NoRequest.token]
    /\ IF LLMInitRaises(init_ok)
       THEN /\ response' = Raised
            /\ UNCHANGED initialized
       ELSE /\ initialized' = [initialized EXCEPT !.llm = TRUE]
            /\ response' = Returned(
                  [llm_available |-> settings.llm_backend # "mock",
                   provider |-> settings.llm_backend])
    /\ UNCHANGED <<settings, users, store, last_search>>

HealthCheck ==
    \E init_ok \in BOOLEAN :
        /\ initialized.llm => init_ok
        /\ health_check(init_ok)

NextLLM ==
    \/ HealthCheck
    \/ LLMAnswer

SpecLLM == InitLLM /\ [][NextLLM]_vars

\* health_check has returned.
HealthReported == request.endpoint = "health_check" /\ ~response.raised

\* C27: on first use the backend is selected in this order: configured
\* provider anthropic with an Anthropic key: anthropic; else configured
\* provider openai with an OpenAI key: openai; else any Anthropic key:
\* anthropic; else any OpenAI key: openai; else mock.  The provider name is
\* compared in lower case.  Mock is selected if and only if neither key is
\* present, and once selected the backend does not change on later calls.
C27_BackendSelection ==
    /\ [](HealthReported =>
            LET configured == settings.LLM_PROVIDER
                anthropic_key == settings.ANTHROPIC_API_KEY # ""
                openai_key == settings.OPENAI_API_KEY # ""
                selected == response.value.provider
            IN /\ (configured \in {"anthropic", "Anthropic"} /\ anthropic_key)
                     => selected = "anthropic"
               /\ (/\ ~(configured \in {"anthropic", "Anthropic"} /\ anthropic_key)
                   /\ configured \in {"openai", "OPENAI"} /\ openai_key)
                     => selected = "openai"
               /\ (/\ ~(configured \in {"anthropic", "Anthropic"} /\ anthropic_key)
                   /\ ~(configured \in {"openai", "OPENAI"} /\ openai_key)
                   /\ anthropic_key)
                     => selected = "anthropic"
               /\ (/\ ~(configured \in {"openai", "OPENAI"} /\ openai_key)
                   /\ ~anthropic_key /\ openai_key)
                     => selected = "openai"
               /\ selected = "mock" <=> (~anthropic_key /\ ~openai_key)
               /\ response.value.llm_available <=> selected # "mock")
    /\ [][(HealthReported /\ HealthReported')
             => response'.value.provider = response.value.provider]_vars

\* C27 witness: with provider OPENAI configured and both keys present,
\* health_check has reported openai after a call of answer_question.
C27_Witness ==
    /\ HealthReported
    /\ settings.LLM_PROVIDER = "OPENAI"
    /\ settings.ANTHROPIC_API_KEY # ""
    /\ settings.OPENAI_API_KEY # ""
    /\ response.value.provider = "openai"
    /\ last_search.called


(***************************************************************************)
(* The index entries of a document against its row, checked under Spec.    *)
(***************************************************************************)
\* C28: whenever a document is completed and no ingestion task of it is
\* scheduled or running, the index holds exactly embedding_count entries
\* tagged with its document_id, with the ids doc_{id}_chunk_{i} for
\* i = 0..chunk_count-1, each tagged with the user_id of the owner.
C28_CompletedMatchesIndex ==
    \A d \in DOMAIN documents :
        (documents[d].status = COMPLETED /\ LiveTasks(d) = {}) =>
            LET entries == EntriesOfDocument(collection, d) IN
            /\ Cardinality(entries) = documents[d].embedding_count
            /\ entries = {EntryId(d, i) : i \in 0..(documents[d].chunk_count - 1)}
            /\ \A id \in entries :
                  collection[id].metadata.user_id = documents[d].user_id


\* C29: a document whose status is pending or failed has no entry in the
\* vector index, so no search returns one of its chunks.
C29_PendingOrFailedNotIndexed ==
    \A d \in DOMAIN documents :
        documents[d].status \in {PENDING, FAILED} =>
            /\ EntriesOfDocument(collection, d) = {}
            /\ ~Searchable(d)


(***************************************************************************)
(* The history entry of an ask, checked under SpecChat.                    *)
(***************************************************************************)
\* The step answers a POST /ask with 200.
AskSucceeds ==
    /\ request'.endpoint = "POST /ask"
    /\ response'.status = 200
    /\ next_message_id' = next_message_id + 1

\* C30: every successful ask creates exactly one ChatMessage row, owned by
\* the asking user, and the history entry returned for that row carries the
\* same question, answer, sources and processing_time as the ask response:
\* its sources are a list, the empty one included, and not null.
C30_HistoryEntryMatchesAsk ==
    [][ AskSucceeds =>
          /\ Len(chat_messages') = Len(chat_messages) + 1
          /\ SubSeq(chat_messages', 1, Len(chat_messages)) = chat_messages
          /\ LET row == chat_messages'[Len(chat_messages')]
                 entry == HistoryItem(row)
             IN /\ row.user_id = request'.token.user
                /\ entry.question = response'.question
                /\ entry.answer = response'.answer
                /\ entry.processing_time = response'.processing_time
                /\ entry.sources = response'.sources
                /\ ~entry.sources_null
      ]_vars

====
